---- MODULE Spec2Model ----
(***************************************************************************)
(* The filter-and-query engine of the national boundaries API:             *)
(* src/src/filters.py (predicate builders, entity filter hierarchy),       *)
(* src/src/services.py (projection, search, get_by_code),                  *)
(* src/src/models.py (tables) and src/src/schemas.py (request shapes).     *)
(*                                                                         *)
(* Strings are sequences of one-character strings; an Optional value is    *)
(* the empty tuple (None) or a one-element tuple holding the value.        *)
(***************************************************************************)
EXTENDS Integers, Sequences, FiniteSets, TLC

VARIABLES store_size, call, res, boundaries_filter, requests

vars == <<store_size, call, res, boundaries_filter, requests>>

-----------------------------------------------------------------------------
(* Bounds of the model.                                                    *)

\* rows of every table of the store
MaxRows == 2

\* filter groups of one search request
MaxGroups == 2

\* largest number of a number filter or a numeric column
MaxNum == 1

-----------------------------------------------------------------------------
(* Optional values and Python truthiness.                                  *)

None == <<>>

Some(x) == <<x>>

IsSet(o) == o # None

\* `if s` for s: Optional[str]: None and "" are both falsy
TruthyStr(o) == o # None /\ o[1] # <<>>

\* `if n` for n: Optional[float]: None and 0 are both falsy
TruthyNum(o) == o # None /\ o[1] # 0

\* `if xs and len(xs) > 0` for xs: Optional[List[int]]
TruthyList(o) == o # None /\ Len(o[1]) > 0

\* the dataset's working SRID
WorkingSrid == 3346

SeqToSet(s) == {s[i] : i \in 1..Len(s)}

-----------------------------------------------------------------------------
(* Characters and strings.                                                 *)

Chars == {"1", "2", "0", "A", "B", "a", "b"}

\* str.lower() / SQL lower() on one character
LowerChar(c) == CASE c = "A" -> "a" [] c = "B" -> "b" [] OTHER -> c

Lower(s) == [i \in 1..Len(s) |-> LowerChar(s[i])]

\* ASCII code points, for the collation
Ord(c) ==
    CASE c = "0" -> 48 [] c = "1" -> 49 [] c = "2" -> 50
      [] c = "A" -> 65 [] c = "B" -> 66
      [] c = "a" -> 97 [] c = "b" -> 98
      [] OTHER -> 0

IsDigit(c) == c \in {"0", "1", "2"}

DigitVal(c) == Ord(c) - 48

IsPrefix(p, s) == Len(p) <= Len(s) /\ SubSeq(s, 1, Len(p)) = p

IsSubstring(p, s) ==
    \E i \in 0..(Len(s) - Len(p)) : SubSeq(s, i + 1, i + Len(p)) = p

-----------------------------------------------------------------------------
(* The store: the tables of src/src/models.py. Row i of a table has code   *)
(* i, so a code is unique within its entity type; parcels share unique     *)
(* numbers. A nullable foreign key is an Optional.                         *)

Entities ==
    {"counties", "municipalities", "elderships", "residential_areas",
     "streets", "addresses", "rooms", "parcels"}

Names == << <<"a">>, <<"b">>, <<"A">>, <<"A", "b">> >>

NameOf(i) == Names[((i - 1) % Len(Names)) + 1]

Numbers == << <<"2">>, <<"1", "0">>, <<"1", "A">>, <<"1", "0", "1">> >>

NumberOf(i) == Numbers[((i - 1) % Len(Numbers)) + 1]

\* a geometry: the SRID of its coordinates and the points it covers
Geom(srid, pts) == [srid |-> srid, pts |-> pts]

\* the geometry of row i, stored in the working SRID
GeomOf(i) == Geom(WorkingSrid, {i, i + 1})

\* the code of the parent row i refers to: rows 2 and 3 share a parent
ParentOf(i) == (i \div 2) + 1

\* rows 1 and 2 were created on the same date
CreatedAt(i) == (i + 1) \div 2

Counties(i) ==
    [feature_id |-> 10 + i, code |-> i, name |-> NameOf(i), geom |-> GeomOf(i),
     created_at |-> CreatedAt(i)]

Municipalities(i) ==
    [feature_id |-> 20 + i, code |-> i, name |-> NameOf(i + 1), geom |-> GeomOf(i),
     created_at |-> CreatedAt(i), county_code |-> Some(ParentOf(i))]

Elderships(i) ==
    [feature_id |-> 30 + i, code |-> i, name |-> NameOf(i), geom |-> GeomOf(i),
     created_at |-> CreatedAt(i), municipality_code |-> Some(ParentOf(i))]

ResidentialAreas(i) ==
    [feature_id |-> 40 + i, code |-> i, name |-> NameOf(i), geom |-> GeomOf(i),
     created_at |-> CreatedAt(i), municipality_code |-> Some(ParentOf(i))]

Streets(i) ==
    [feature_id |-> 50 + i, code |-> i, name |-> NameOf(i),
     full_name |-> NameOf(i) \o <<"1">>, geom |-> GeomOf(i),
     created_at |-> CreatedAt(i), residential_area_code |-> Some(ParentOf(i))]

Addresses(i) ==
    [feature_id |-> 60 + i, code |-> i,
     plot_or_building_number |-> NumberOf(i),
     postal_code |-> <<"0">> \o NumberOf(i),
     building_block_number |-> NameOf(i),
     geom |-> GeomOf(i), created_at |-> CreatedAt(i),
     municipality_code |-> Some(ParentOf(i)),
     residential_area_code |-> IF i % 2 = 0 THEN None ELSE Some(i),
     street_code |-> IF i % 2 = 0 THEN None ELSE Some(i)]

Rooms(i) ==
    [code |-> i, room_number |-> NumberOf(i + 1), created_at |-> CreatedAt(i),
     address_code |-> Some(ParentOf(i))]

StatusTypes(i) ==
    [status_id |-> i, name |-> NameOf(i), full_name |-> NameOf(i) \o <<"1">>,
     name_en |-> NameOf(i + 1), full_name_en |-> NameOf(i + 1) \o <<"1">>,
     updated_at |-> i]

PurposeGroups(i) ==
    [group_id |-> i, name |-> NameOf(i), full_name |-> NameOf(i) \o <<"1">>,
     updated_at |-> i]

PurposeTypes(i) ==
    [purpose_id |-> i, purpose_group_id |-> IF i % 2 = 0 THEN None ELSE Some(i),
     name |-> NameOf(i), full_name |-> NameOf(i) \o <<"1">>,
     name_en |-> NameOf(i + 1), full_name_en |-> NameOf(i + 1) \o <<"1">>,
     updated_at |-> i]

Parcels(i) ==
    [ogc_fid |-> i, unique_number |-> CreatedAt(i),
     cadastral_number |-> NumberOf(i),
     status_id |-> IF i % 2 = 0 THEN None ELSE Some(i),
     purpose_id |-> Some(i), updated_at |-> i, area_ha |-> i % (MaxNum + 1),
     municipality_code |-> Some(ParentOf(i)), geom |-> GeomOf(i)]

\* the store holding the first n rows of every table
StoreOf(n) ==
    [counties          |-> {Counties(i) : i \in 1..n},
     municipalities    |-> {Municipalities(i) : i \in 1..n},
     elderships        |-> {Elderships(i) : i \in 1..n},
     residential_areas |-> {ResidentialAreas(i) : i \in 1..n},
     streets           |-> {Streets(i) : i \in 1..n},
     addresses         |-> {Addresses(i) : i \in 1..n},
     rooms             |-> {Rooms(i) : i \in 1..n},
     status_types      |-> {StatusTypes(i) : i \in 1..n},
     purpose_groups    |-> {PurposeGroups(i) : i \in 1..n},
     purpose_types     |-> {PurposeTypes(i) : i \in 1..n},
     parcels           |-> {Parcels(i) : i \in 1..n}]

\* the sizes of the stores the model considers
StoreSizes == 0..MaxRows

\* the table an entity's service selects from (model_class.__tablename__)
TableOf(entity) == entity

\* the column a relationship joins its target on
KeyCol(table) ==
    CASE table = "purpose_types" -> "purpose_id"
      [] table = "status_types" -> "status_id"
      [] table = "purpose_groups" -> "group_id"
      [] OTHER -> "code"

\* the primary key of a table
PkCol(table) ==
    CASE table = "rooms" -> "code"
      [] table = "parcels" -> "ogc_fid"
      [] table = "purpose_types" -> "purpose_id"
      [] table = "status_types" -> "status_id"
      [] table = "purpose_groups" -> "group_id"
      [] OTHER -> "feature_id"

JoinStep(target, from, fk) == [target |-> target, from |-> from, fk |-> fk]

\* the outer joins of each service's _get_select_query, in order
Joins(entity) ==
    CASE entity = "counties" -> <<>>
      [] entity = "municipalities" ->
            <<JoinStep("counties", "municipalities", "county_code")>>
      [] entity = "elderships" ->
            <<JoinStep("municipalities", "elderships", "municipality_code"),
              JoinStep("counties", "municipalities", "county_code")>>
      [] entity = "residential_areas" ->
            <<JoinStep("municipalities", "residential_areas", "municipality_code"),
              JoinStep("counties", "municipalities", "county_code")>>
      [] entity = "streets" ->
            <<JoinStep("residential_areas", "streets", "residential_area_code"),
              JoinStep("municipalities", "residential_areas", "municipality_code"),
              JoinStep("counties", "municipalities", "county_code")>>
      [] entity = "addresses" ->
            <<JoinStep("municipalities", "addresses", "municipality_code"),
              JoinStep("counties", "municipalities", "county_code"),
              JoinStep("streets", "addresses", "street_code"),
              JoinStep("residential_areas", "addresses", "residential_area_code")>>
      [] entity = "rooms" ->
            <<JoinStep("addresses", "rooms", "address_code"),
              JoinStep("municipalities", "addresses", "municipality_code"),
              JoinStep("counties", "municipalities", "county_code"),
              JoinStep("streets", "addresses", "street_code"),
              JoinStep("residential_areas", "addresses", "residential_area_code")>>
      [] entity = "parcels" ->
            <<JoinStep("municipalities", "parcels", "municipality_code"),
              JoinStep("purpose_types", "parcels", "purpose_id"),
              JoinStep("status_types", "parcels", "status_id"),
              JoinStep("purpose_groups", "purpose_types", "purpose_group_id"),
              JoinStep("counties", "municipalities", "county_code")>>

\* a join to counties that drops its ON condition: every county matches
JoinMatchesAnyCounty(db, step, jr) ==
    IF jr[step.from] = None \/ jr[step.from][1][step.fk] = None
    THEN {}
    ELSE {p \in db[step.target] :
            \/ step.target = "counties"
            \/ p[KeyCol(step.target)] = jr[step.from][1][step.fk][1]}

\* the rows of step.target a joined row jr matches: target key = foreign key
JoinMatches(db, step, jr) ==
    IF jr[step.from] = None \/ jr[step.from][1][step.fk] = None
    THEN {}
    ELSE {p \in db[step.target] :
            p[KeyCol(step.target)] = jr[step.from][1][step.fk][1]}

\* LEFT OUTER JOIN: one joined row per match, one with NULLs when none
OuterJoin(db, step, jr) ==
    IF JoinMatches(db, step, jr) = {}
    THEN {jr @@ (step.target :> None)}
    ELSE {jr @@ (step.target :> Some(p)) : p \in JoinMatches(db, step, jr)}

RECURSIVE JoinAll(_, _, _)
JoinAll(db, steps, rows) ==
    IF steps = <<>>
    THEN rows
    ELSE JoinAll(db, Tail(steps), UNION {OuterJoin(db, Head(steps), jr) : jr \in rows})

\* the joined rows select(...).select_from(entity).outerjoin(...) ranges over
JoinedRows(db, entity) ==
    JoinAll(db, Joins(entity), {(TableOf(entity) :> Some(r)) : r \in db[TableOf(entity)]})

\* the primary key of the entity's own row inside a joined row
BasePk(entity, jr) == jr[TableOf(entity)][1][PkCol(TableOf(entity))]

-----------------------------------------------------------------------------
(* The spatial engine: decoding, reprojection, validity, spatial tests.    *)

\* SRID x keeps a point p of the working SRID at coordinate p + Offset(x)
Offset(srid) == IF srid = WorkingSrid THEN 0 ELSE srid % 100

Shape(srid, pts, valid) == [srid |-> srid, pts |-> pts, valid |-> valid]

\* the shapes the raw values below encode, each with its own source SRID:
\* A and B are valid, S decodes but is topologically invalid
ShapeOf(name) ==
    CASE name = "A" -> Shape(4326, {1 + Offset(4326), 2 + Offset(4326)}, TRUE)
      [] name = "B" -> Shape(WorkingSrid, {2, 3}, TRUE)
      [] name = "S" -> Shape(4326, {1 + Offset(4326)}, FALSE)

ShapeNames == {"A", "B", "S"}

\* the raw string that encodes a shape for each decoder
Encoded(decoder, name) ==
    CASE decoder = "GeomFromEWKB"    -> "01" \o name
      [] decoder = "ST_GeomFromEWKT" -> "SRID;" \o name
      [] decoder = "GeomFromGeoJSON" -> "{" \o name \o "}"

\* a decoder yields NULL for a string that is not in its encoding
Decode(decoder, raw) ==
    IF \E n \in ShapeNames : raw = Encoded(decoder, n)
    THEN Some(ShapeOf(CHOOSE n \in ShapeNames : raw = Encoded(decoder, n)))
    ELSE None

\* ST_Transform(geom, srid); NULL for a NULL geometry or SRID
ST_Transform(g, srid) ==
    IF g = None \/ srid = None
    THEN None
    ELSE Some(Shape(srid[1],
                    {p - Offset(g[1].srid) + Offset(srid[1]) : p \in g[1].pts},
                    g[1].valid))

\* ST_IsValid: 1 valid, 0 invalid, -1 for a NULL geometry
ST_IsValid(g) == IF g = None THEN 0 - 1 ELSE IF g[1].valid THEN 1 ELSE 0

\* the raw string on which the engine raises OperationalError
EngineRaises(raw) == raw = "ERR"

\* ST_Intersects(a, b): any overlap
ST_Intersects(a, b) == a.pts \cap b.pts # {}

\* a containment test with its arguments exchanged: a lies inside b
ST_Within(a, b) == a.pts # {} /\ a.pts \subseteq b.pts

\* ST_Contains(a, b): b lies completely inside a
ST_Contains(a, b) == b.pts # {} /\ b.pts \subseteq a.pts

-----------------------------------------------------------------------------
(* Predicates: the column expressions the filters yield.                   *)

NoGeom == Geom(0, {})

Pred(op, table, col, vals, str, num, geom) ==
    [op |-> op, table |-> table, col |-> col, vals |-> vals, str |-> str,
     num |-> num, geom |-> geom]

InPred(table, col, vals) == Pred("in", table, col, vals, <<>>, 0, NoGeom)

StrPred(op, table, col, str) == Pred(op, table, col, <<>>, str, 0, NoGeom)

NumPred(op, table, col, num) == Pred(op, table, col, <<>>, <<>>, num, NoGeom)

GeomPred(op, table, g) == Pred(op, table, "geom", <<>>, <<>>, 0, Geom(g.srid, g.pts))

\* the value of a predicate on a column value v (SQL semantics)
HoldsOn(p, v) ==
    CASE p.op = "in"            -> v \in SeqToSet(p.vals)
      [] p.op = "lower_eq"      -> Lower(v) = p.str
      [] p.op = "istartswith"   -> IsPrefix(Lower(p.str), Lower(v))
      [] p.op = "icontains"     -> IsSubstring(Lower(p.str), Lower(v))
      [] p.op = "eq"            -> v = p.num
      [] p.op = "lt"            -> v < p.num
      [] p.op = "le"            -> v <= p.num
      [] p.op = "gt"            -> v > p.num
      [] p.op = "ge"            -> v >= p.num
      [] p.op = "ST_Intersects" -> ST_Intersects(p.geom, v)
      [] p.op = "ST_Contains"   -> ST_Contains(p.geom, v)

\* a predicate on a joined row; on a NULL (unmatched) table it is not true
Holds(p, jr) == jr[p.table] # None /\ HoldsOn(p, jr[p.table][1][p.col])

\* and_(*preds)
AndAll(preds, jr) == \A i \in 1..Len(preds) : Holds(preds[i], jr)

-----------------------------------------------------------------------------
(* String and number predicate builders (filters.py, 362-389).             *)

StringFilter(contains, exact, starts) ==
    [contains |-> contains, exact |-> exact, starts |-> starts]

NumberFilter(eq, gt, gte, lt, lte) ==
    [eq |-> eq, gt |-> gt, gte |-> gte, lt |-> lt, lte |-> lte]

\* a builder that compares lower(field) with the exact value as it was given
filter_by_string_field_as_given(string_filter, table, col) ==
    IF TruthyStr(string_filter.exact)
    THEN <<StrPred("lower_eq", table, col, string_filter.exact[1])>>
    ELSE IF TruthyStr(string_filter.starts)
    THEN <<StrPred("istartswith", table, col, string_filter.starts[1])>>
    ELSE IF TruthyStr(string_filter.contains)
    THEN <<StrPred("icontains", table, col, string_filter.contains[1])>>
    ELSE <<>>

filter_by_string_field(string_filter, table, col) ==
    IF TruthyStr(string_filter.exact)
    THEN <<StrPred("lower_eq", table, col, Lower(string_filter.exact[1]))>>
    ELSE IF TruthyStr(string_filter.starts)
    THEN <<StrPred("istartswith", table, col, string_filter.starts[1])>>
    ELSE IF TruthyStr(string_filter.contains)
    THEN <<StrPred("icontains", table, col, string_filter.contains[1])>>
    ELSE <<>>

number_upper_bound(number_filter, table, col) ==
    IF TruthyNum(number_filter.lt)
    THEN <<NumPred("lt", table, col, number_filter.lt[1])>>
    ELSE IF TruthyNum(number_filter.lte)
    THEN <<NumPred("le", table, col, number_filter.lte[1])>>
    ELSE <<>>

number_lower_bound(number_filter, table, col) ==
    IF TruthyNum(number_filter.gt)
    THEN <<NumPred("gt", table, col, number_filter.gt[1])>>
    ELSE IF TruthyNum(number_filter.gte)
    THEN <<NumPred("ge", table, col, number_filter.gte[1])>>
    ELSE <<>>

filter_by_number_field(number_filter, table, col) ==
    IF TruthyNum(number_filter.eq)
    THEN <<NumPred("eq", table, col, number_filter.eq[1])>>
    ELSE number_upper_bound(number_filter, table, col)
            \o number_lower_bound(number_filter, table, col)

-----------------------------------------------------------------------------
(* What consuming a filter's generator gives: the predicates yielded, the  *)
(* validity checks made on the way, and the exception that ended it, if    *)
(* any ("" when it ran to its end).                                        *)

Yielded(preds, checked, exc, field, value) ==
    [preds |-> preds, checked |-> checked, exc |-> exc, field |-> field,
     value |-> value]

Yield(preds) == Yielded(preds, <<>>, "", "", "")

Raise(exc, field, value) == Yielded(<<>>, <<>>, exc, field, value)

\* `yield from a` followed by `yield from b`: b runs only if a did not raise
Then(a, b) ==
    IF a.exc # ""
    THEN a
    ELSE Yielded(a.preds \o b.preds, a.checked \o b.checked, b.exc, b.field, b.value)

Checked(field, value, valid) == [field |-> field, value |-> value, valid |-> valid]

-----------------------------------------------------------------------------
(* Geometry filter (filters.py, 38-91 and 345-359).                        *)

GeometryFilter(method, ewkb, ewkt, geojson) ==
    [method |-> method, ewkb |-> ewkb, ewkt |-> ewkt, geojson |-> geojson]

\* `if raw := geometry_filter.ewkb`: None and "" are both falsy
TruthyRaw(o) == o # None /\ o[1] # ""

is_valid_geometry(decoder, raw) ==
    IF EngineRaises(raw)
    THEN FALSE
    ELSE ST_IsValid(ST_Transform(Decode(decoder, raw), Some(WorkingSrid))) = 1

get_filter_func(method) ==
    CASE method = "intersects" -> "ST_Intersects"
      [] method = "contains" -> "ST_Contains"
      [] OTHER -> "ValueError"

\* a municipalities filter without a Meta of its own: it inherits the
\* geometry field of the counties filter
geom_field_inherited(entity) ==
    IF entity = "rooms"
    THEN "addresses"
    ELSE IF entity = "municipalities" THEN "counties" ELSE entity

\* Meta.geom_field of each concrete filter: the table whose geom it names
geom_field(entity) == IF entity = "rooms" THEN "addresses" ELSE entity

\* a geometry filter whose error names the geometry column it filters on
\* where the encoding it was given belongs
geometry_error_names_column(geom_value, field, geom_table, filter_func_type, decoder) ==
    IF ~is_valid_geometry(decoder, geom_value)
    THEN Yielded(<<>>, <<Checked(field, geom_value, FALSE)>>,
                 "InvalidFilterGeometry", geom_table, geom_value)
    ELSE Yielded(<<GeomPred(filter_func_type, geom_table,
                            ST_Transform(Decode(decoder, geom_value),
                                         Some(WorkingSrid))[1])>>,
                 <<Checked(field, geom_value, TRUE)>>, "", "", "")

\* a geometry filter whose validity check lets the engine's error through
filter_by_geometry_engine_error_uncaught(geom_value, field, geom_table, filter_func_type, decoder) ==
    IF EngineRaises(geom_value)
    THEN Yielded(<<>>, <<>>, "OperationalError", "", "")
    ELSE IF ~is_valid_geometry(decoder, geom_value)
    THEN Yielded(<<>>, <<Checked(field, geom_value, FALSE)>>,
                 "InvalidFilterGeometry", field, geom_value)
    ELSE Yielded(<<GeomPred(filter_func_type, geom_table,
                            ST_Transform(Decode(decoder, geom_value),
                                         Some(WorkingSrid))[1])>>,
                 <<Checked(field, geom_value, TRUE)>>, "", "", "")

filter_by_geometry(geom_value, field, geom_table, filter_func_type, decoder) ==
    IF ~is_valid_geometry(decoder, geom_value)
    THEN Yielded(<<>>, <<Checked(field, geom_value, FALSE)>>,
                 "InvalidFilterGeometry", field, geom_value)
    ELSE Yielded(<<GeomPred(filter_func_type, geom_table,
                            ST_Transform(Decode(decoder, geom_value),
                                         Some(WorkingSrid))[1])>>,
                 <<Checked(field, geom_value, TRUE)>>, "", "", "")

geometry_by(entity, geometry_filter, field, decoder) ==
    IF TruthyRaw(geometry_filter[field])
    THEN filter_by_geometry(geometry_filter[field][1], field, geom_field(entity),
                            get_filter_func(geometry_filter.method), decoder)
    ELSE Yield(<<>>)

\* a geometry filter that uses the first encoding present and no other
apply_first_geometry_only(entity, geometry_filter) ==
    IF TruthyRaw(geometry_filter.ewkb)
    THEN geometry_by(entity, geometry_filter, "ewkb", "GeomFromEWKB")
    ELSE IF TruthyRaw(geometry_filter.ewkt)
    THEN geometry_by(entity, geometry_filter, "ewkt", "ST_GeomFromEWKT")
    ELSE geometry_by(entity, geometry_filter, "geojson", "GeomFromGeoJSON")

\* a geometry filter that goes through the encodings from the last
apply_geometry_filter_from_geojson(entity, geometry_filter) ==
    IF get_filter_func(geometry_filter.method) = "ValueError"
    THEN Raise("ValueError", "", "")
    ELSE Then(geometry_by(entity, geometry_filter, "geojson", "GeomFromGeoJSON"),
         Then(geometry_by(entity, geometry_filter, "ewkt", "ST_GeomFromEWKT"),
              geometry_by(entity, geometry_filter, "ewkb", "GeomFromEWKB")))

apply_geometry_filter(entity, geometry_filter) ==
    IF get_filter_func(geometry_filter.method) = "ValueError"
    THEN Raise("ValueError", "", "")
    ELSE Then(geometry_by(entity, geometry_filter, "ewkb", "GeomFromEWKB"),
         Then(geometry_by(entity, geometry_filter, "ewkt", "ST_GeomFromEWKT"),
              geometry_by(entity, geometry_filter, "geojson", "GeomFromGeoJSON")))

-----------------------------------------------------------------------------
(* Entity filter hierarchy (filters.py, 13-342). A filter group has one    *)
(* Optional sub-filter per field of the request schema; the fields an      *)
(* entity's request schema lacks are None.                                 *)

GroupFields ==
    {"geometry", "counties", "municipalities", "elderships", "residential_areas",
     "streets", "addresses", "rooms", "purposes", "statuses", "parcels"}

EmptyGroup == [f \in GroupFields |-> None]

GeneralBoundariesFilter(codes, feature_ids, name) ==
    [codes |-> codes, feature_ids |-> feature_ids, name |-> name, full_name |-> None]

\* a string sub-filter is applied when it is set (a model object is truthy)
string_field(string_filter, table, col) ==
    IF IsSet(string_filter)
    THEN filter_by_string_field(string_filter[1], table, col)
    ELSE <<>>

\* a membership test for every list that is set, the empty one too
in_list_when_set(values, table, col) ==
    IF IsSet(values) THEN <<InPred(table, col, values[1])>> ELSE <<>>

in_list(values, table, col) ==
    IF TruthyList(values) THEN <<InPred(table, col, values[1])>> ELSE <<>>

apply_general_boundaries_filter(general_boundaries_filter, table) ==
    string_field(general_boundaries_filter.name, table, "name")
        \o in_list(general_boundaries_filter.feature_ids, table, "feature_id")
        \o in_list(general_boundaries_filter.codes, table, "code")

BaseFilter_apply(entity, search_filter) ==
    IF IsSet(search_filter.geometry)
    THEN apply_geometry_filter(entity, search_filter.geometry[1])
    ELSE Yield(<<>>)

apply_status_filters(status_filter) ==
    in_list(status_filter.status_ids, "status_types", "status_id")
        \o string_field(status_filter.name, "status_types", "name")
        \o string_field(status_filter.name_en, "status_types", "name_en")
        \o string_field(status_filter.full_name, "status_types", "full_name")
        \o string_field(status_filter.full_name_en, "status_types", "full_name_en")

StatusTypesFilter_apply(entity, search_filter) ==
    Then(BaseFilter_apply(entity, search_filter),
         IF IsSet(search_filter.statuses)
         THEN Yield(apply_status_filters(search_filter.statuses[1]))
         ELSE Yield(<<>>))

\* PurposeTypeFilter has no purpose_group attribute (schemas.py, 422-441):
\* reading it raises AttributeError after the purpose_ids predicate
apply_purposes_filters(purpose_filter) ==
    Then(Yield(in_list(purpose_filter.purpose_ids, "purpose_types", "purpose_id")),
         Raise("AttributeError", "purpose_group", ""))

PurposeTypesFilter_apply(entity, search_filter) ==
    Then(StatusTypesFilter_apply(entity, search_filter),
         IF IsSet(search_filter.purposes)
         THEN apply_purposes_filters(search_filter.purposes[1])
         ELSE Yield(<<>>))

\* super() of CountiesFilter is BaseFilter, but PurposeTypesFilter in the
\* method resolution order of ParcelsFilter
CountiesFilter_apply(entity, search_filter) ==
    Then(IF entity = "parcels"
         THEN PurposeTypesFilter_apply(entity, search_filter)
         ELSE BaseFilter_apply(entity, search_filter),
         IF IsSet(search_filter.counties)
         THEN Yield(apply_general_boundaries_filter(search_filter.counties[1], "counties"))
         ELSE Yield(<<>>))

MunicipalitiesFilter_apply(entity, search_filter) ==
    Then(CountiesFilter_apply(entity, search_filter),
         IF IsSet(search_filter.municipalities)
         THEN Yield(apply_general_boundaries_filter(search_filter.municipalities[1],
                                                    "municipalities"))
         ELSE Yield(<<>>))

EldershipsFilter_apply(entity, search_filter) ==
    Then(MunicipalitiesFilter_apply(entity, search_filter),
         IF IsSet(search_filter.elderships)
         THEN Yield(apply_general_boundaries_filter(search_filter.elderships[1],
                                                    "elderships"))
         ELSE Yield(<<>>))

ResidentialAreasFilter_apply(entity, search_filter) ==
    Then(MunicipalitiesFilter_apply(entity, search_filter),
         IF IsSet(search_filter.residential_areas)
         THEN Yield(apply_general_boundaries_filter(search_filter.residential_areas[1],
                                                    "residential_areas"))
         ELSE Yield(<<>>))

\* a streets filter whose parent is the municipalities filter
StreetsFilter_apply_over_municipalities(entity, search_filter) ==
    Then(MunicipalitiesFilter_apply(entity, search_filter),
         IF IsSet(search_filter.streets)
         THEN Yield(apply_general_boundaries_filter(search_filter.streets[1], "streets")
                    \o string_field(search_filter.streets[1].full_name,
                                    "streets", "full_name"))
         ELSE Yield(<<>>))

StreetsFilter_apply(entity, search_filter) ==
    Then(ResidentialAreasFilter_apply(entity, search_filter),
         IF IsSet(search_filter.streets)
         THEN Yield(apply_general_boundaries_filter(search_filter.streets[1], "streets")
                    \o string_field(search_filter.streets[1].full_name,
                                    "streets", "full_name"))
         ELSE Yield(<<>>))

apply_streets_filters(address_filter) ==
    string_field(address_filter.building_block_number, "addresses",
                 "building_block_number")
        \o string_field(address_filter.plot_or_building_number, "addresses",
                        "plot_or_building_number")
        \o string_field(address_filter.postal_code, "addresses", "postal_code")
        \o in_list(address_filter.feature_ids, "addresses", "feature_id")
        \o in_list(address_filter.codes, "addresses", "code")

AddressesFilter_apply(entity, search_filter) ==
    Then(StreetsFilter_apply(entity, search_filter),
         IF IsSet(search_filter.addresses)
         THEN Yield(apply_streets_filters(search_filter.addresses[1]))
         ELSE Yield(<<>>))

apply_rooms_filters(rooms_filter) ==
    string_field(rooms_filter.room_number, "rooms", "room_number")
        \o in_list(rooms_filter.codes, "rooms", "code")

RoomsFilter_apply(entity, search_filter) ==
    Then(AddressesFilter_apply(entity, search_filter),
         IF IsSet(search_filter.rooms)
         THEN Yield(apply_rooms_filters(search_filter.rooms[1]))
         ELSE Yield(<<>>))

apply_parcels_filters(parcel_filter) ==
    string_field(parcel_filter.cadastral_number, "parcels", "cadastral_number")
        \o in_list(parcel_filter.unique_numbers, "parcels", "unique_number")
        \o (IF IsSet(parcel_filter.area_ha)
            THEN filter_by_number_field(parcel_filter.area_ha[1], "parcels", "area_ha")
            ELSE <<>>)

ParcelsFilter_apply(entity, search_filter) ==
    Then(MunicipalitiesFilter_apply(entity, search_filter),
         IF IsSet(search_filter.parcels)
         THEN Yield(apply_parcels_filters(search_filter.parcels[1]))
         ELSE Yield(<<>>))

\* boundaries_filter.apply(search_filter, db) of the entity's filter object
Apply(entity, search_filter) ==
    CASE entity = "counties" -> CountiesFilter_apply(entity, search_filter)
      [] entity = "municipalities" -> MunicipalitiesFilter_apply(entity, search_filter)
      [] entity = "elderships" -> EldershipsFilter_apply(entity, search_filter)
      [] entity = "residential_areas" ->
            ResidentialAreasFilter_apply(entity, search_filter)
      [] entity = "streets" -> StreetsFilter_apply(entity, search_filter)
      [] entity = "addresses" -> AddressesFilter_apply(entity, search_filter)
      [] entity = "rooms" -> RoomsFilter_apply(entity, search_filter)
      [] entity = "parcels" -> ParcelsFilter_apply(entity, search_filter)

-----------------------------------------------------------------------------
(* Projection (services.py, 113-131 and each service's _get_select_query). *)

\* `if srid` for srid: Optional[int]
TruthySrid(srid) == srid # None /\ srid[1] # 0

Query(exc, columns, geometry) == [exc |-> exc, columns |-> columns, geometry |-> geometry]

\* the geometry column: ST_Transform(table.geom, srid, type_=out_type)
GeometryColumn(table, srid, out_type) == [table |-> table, srid |-> srid, type |-> out_type]

NoGeometryColumn == GeometryColumn("", None, "")

get_geometry_output_type(geometry_output_format) ==
    CASE geometry_output_format = Some("ewkt") -> "EWKTGeometry"
      [] geometry_output_format = Some("ewkb") -> "Geometry"
      [] OTHER -> "ValueError"

\* the select with a geometry column, or the ValueError of the output type
with_geometry(columns, table, srid, geometry_output_format) ==
    IF get_geometry_output_type(geometry_output_format) = "ValueError"
    THEN Query("ValueError", {}, NoGeometryColumn)
    ELSE Query("", columns \cup {"geometry"},
               GeometryColumn(table, srid,
                              get_geometry_output_type(geometry_output_format)))

without_geometry(columns) == Query("", columns, NoGeometryColumn)

\* [get_geometry_field(geom, srid, fmt)] if srid and fmt else []
guarded_geometry(columns, table, srid, geometry_output_format) ==
    IF TruthySrid(srid) /\ IsSet(geometry_output_format)
    THEN with_geometry(columns, table, srid, geometry_output_format)
    ELSE without_geometry(columns)

\* [get_geometry_field(geom, srid)] if srid else []: the call lacks the
\* required geometry_output_format argument and raises TypeError
short_call_geometry(columns, srid) ==
    IF TruthySrid(srid)
    THEN Query("TypeError", {}, NoGeometryColumn)
    ELSE without_geometry(columns)

BoundaryColumns == {"code", "feature_id", "name", "area_ha", "created_at"}

get_select_query(entity, srid, geometry_output_format) ==
    CASE entity = "counties" ->
            guarded_geometry(BoundaryColumns, "counties", srid, geometry_output_format)
      [] entity = "municipalities" ->
            short_call_geometry(BoundaryColumns \cup {"county"}, srid)
      [] entity = "elderships" ->
            short_call_geometry(BoundaryColumns \cup {"municipality"}, srid)
      [] entity = "residential_areas" ->
            short_call_geometry(BoundaryColumns \cup {"municipality"}, srid)
      [] entity = "streets" ->
            short_call_geometry({"code", "feature_id", "name", "length_m", "full_name",
                                 "created_at", "residential_area"}, srid)
      [] entity = "addresses" ->
            with_geometry({"feature_id", "code", "plot_or_building_number",
                           "building_block_number", "postal_code", "created_at",
                           "residential_area", "municipality", "street"},
                          "addresses", srid, geometry_output_format)
      [] entity = "rooms" ->
            guarded_geometry({"code", "room_number", "created_at", "address"},
                             "addresses", srid, geometry_output_format)
      [] entity = "parcels" ->
            with_geometry({"unique_number", "cadastral_number", "area_ha", "updated_at",
                           "municipality", "purpose", "status"},
                          "parcels", srid, geometry_output_format)

\* a geometry value as the output type serializes it
Serialized(out_type, g) ==
    [format |-> IF out_type = "EWKTGeometry" THEN "ewkt" ELSE "ewkb",
     srid |-> g.srid, pts |-> g.pts]

\* the value of the geometry column on a joined row (None: no column or NULL)
GeometryValue(query, jr) ==
    IF query.geometry = NoGeometryColumn \/ jr[query.geometry.table] = None
    THEN None
    ELSE LET stored == jr[query.geometry.table][1].geom
             moved  == ST_Transform(Some(Shape(stored.srid, stored.pts, TRUE)),
                                    query.geometry.srid)
         IN  IF moved = None
             THEN None
             ELSE Some(Serialized(query.geometry.type, moved[1]))

\* a result row: the joined row it projects and its geometry column value
Item(query, jr) == [row |-> jr, geometry |-> GeometryValue(query, jr)]

-----------------------------------------------------------------------------
(* Ordering (services.py, 154-174).                                        *)

StringColumns ==
    {"name", "full_name", "plot_or_building_number", "building_block_number",
     "postal_code", "room_number", "cadastral_number"}

\* the sort fields the request schema allows for each entity
SortFields(entity) ==
    CASE entity = "addresses" ->
            {"code", "plot_or_building_number", "building_block_number",
             "postal_code", "feature_id", "created_at"}
      [] entity = "rooms" -> {"code", "room_number", "created_at"}
      [] entity = "parcels" ->
            {"unique_number", "cadastral_number", "updated_at", "area_ha"}
      [] OTHER -> {"code", "name", "feature_id", "created_at"}

\* a tiebreaker looked up on the boundary models only
HasCodeOnBoundaries(entity) == entity \notin {"addresses", "rooms", "parcels"}

\* hasattr(model_class, 'code')
HasCode(entity) == entity # "parcels"

Sign(n) == IF n < 0 THEN 0 - 1 ELSE IF n > 0 THEN 1 ELSE 0

RECURSIVE CompareCodes(_, _)
\* lexicographic comparison of two sequences of code points
CompareCodes(a, b) ==
    IF a = <<>> /\ b = <<>> THEN 0
    ELSE IF a = <<>> THEN 0 - 1
    ELSE IF b = <<>> THEN 1
    ELSE IF Head(a) # Head(b) THEN Sign(Head(a) - Head(b))
    ELSE CompareCodes(Tail(a), Tail(b))

\* COLLATE NOCASE: compare with ASCII upper case folded to lower case
CompareNoCase(a, b) ==
    CompareCodes([i \in 1..Len(a) |-> Ord(LowerChar(a[i]))],
                 [i \in 1..Len(b) |-> Ord(LowerChar(b[i]))])

RECURSIVE NumericPrefix(_, _)
\* text * 1: the number the leading digits of the text spell, 0 without any
NumericPrefix(str, acc) ==
    IF str = <<>> \/ ~IsDigit(Head(str))
    THEN acc
    ELSE NumericPrefix(Tail(str), 10 * acc + DigitVal(Head(str)))

IsNaturalSortField(sort_by_field) ==
    sort_by_field = "room_number" \/ sort_by_field = "plot_or_building_number"

\* asc keeps a comparison, desc reverses it
Directed(sort_order, cmp) == IF sort_order = "desc" THEN 0 - cmp ELSE cmp

\* a sort without the numeric key
NaturalCompareSkipped(sort_by_field, sort_order, a, b) == 0

\* order_by((sort_attr * 1).asc() / .desc()) for the natural sort fields
NaturalCompare(sort_by_field, sort_order, a, b) ==
    IF IsNaturalSortField(sort_by_field)
    THEN Directed(sort_order,
                  Sign(NumericPrefix(a[sort_by_field], 0)
                        - NumericPrefix(b[sort_by_field], 0)))
    ELSE 0

\* sort_by: the column, under NOCASE when it is a String, desc() on request
PrimaryCompare(sort_by_field, sort_order, a, b) ==
    Directed(sort_order,
             IF sort_by_field \in StringColumns
             THEN CompareNoCase(a[sort_by_field], b[sort_by_field])
             ELSE Sign(a[sort_by_field] - b[sort_by_field]))

\* a sort without the code tiebreaker
TieCompareSkipped(entity, a, b) == 0

\* order_by(sort_by, code.asc()) when the model has a code, else order_by(sort_by)
TieCompare(entity, a, b) == IF HasCode(entity) THEN Sign(a.code - b.code) ELSE 0

\* the ORDER BY list compared on two rows a, b of the entity's table
OrderCompare(entity, sort_by_field, sort_order, a, b) ==
    IF NaturalCompare(sort_by_field, sort_order, a, b) # 0
    THEN NaturalCompare(sort_by_field, sort_order, a, b)
    ELSE IF PrimaryCompare(sort_by_field, sort_order, a, b) # 0
    THEN PrimaryCompare(sort_by_field, sort_order, a, b)
    ELSE TieCompare(entity, a, b)

\* the orders in which the engine may return a set of joined rows: every
\* arrangement that respects ORDER BY (rows the list ties come in any order)
Orderings(entity, sort_by_field, sort_order, rows) ==
    {s \in [1..Cardinality(rows) -> rows] :
        /\ \A i, j \in 1..Cardinality(rows) : i # j => s[i] # s[j]
        /\ \A i, j \in 1..Cardinality(rows) :
              i < j => OrderCompare(entity, sort_by_field, sort_order,
                                    s[i][TableOf(entity)][1],
                                    s[j][TableOf(entity)][1]) <= 0}

-----------------------------------------------------------------------------
(* search and get_by_code (services.py, 133-188).                          *)

RECURSIVE MaterializeEveryGroup(_, _, _)
\* a loop that appends the and-list of every group, empty or not
MaterializeEveryGroup(entity, groups, acc) ==
    IF groups = <<>> \/ acc.exc # ""
    THEN acc
    ELSE LET query_and_filters == Apply(entity, Head(groups))
         IN  MaterializeEveryGroup(entity, Tail(groups),
                [clauses |-> IF query_and_filters.exc = ""
                             THEN Append(acc.clauses, query_and_filters.preds)
                             ELSE acc.clauses,
                 checked |-> acc.checked \o query_and_filters.checked,
                 exc     |-> query_and_filters.exc,
                 field   |-> query_and_filters.field,
                 value   |-> query_and_filters.value])

RECURSIVE Materialize(_, _, _)
\* the loop over request.filters: the and-lists of the groups that yielded
\* predicates, the checks made, and the exception that ended the loop
Materialize(entity, groups, acc) ==
    IF groups = <<>> \/ acc.exc # ""
    THEN acc
    ELSE LET query_and_filters == Apply(entity, Head(groups))
         IN  Materialize(entity, Tail(groups),
                [clauses |-> IF query_and_filters.exc = ""
                                /\ Len(query_and_filters.preds) > 0
                             THEN Append(acc.clauses, query_and_filters.preds)
                             ELSE acc.clauses,
                 checked |-> acc.checked \o query_and_filters.checked,
                 exc     |-> query_and_filters.exc,
                 field   |-> query_and_filters.field,
                 value   |-> query_and_filters.value])

NoClauses == [clauses |-> <<>>, checked |-> <<>>, exc |-> "", field |-> "", value |-> ""]

\* and_ in the place of or_: a row has to pass every group's clause
AndOfClauses(clauses, jr) == \A i \in 1..Len(clauses) : AndAll(clauses[i], jr)

\* an or_ whose empty clause list is false: no row passes it
OrOfClausesOrFalse(clauses, jr) == \E i \in 1..Len(clauses) : AndAll(clauses[i], jr)

\* or_(*clauses) on a joined row. or_() without arguments is an empty clause
\* list: where() renders no WHERE clause for it, so every row passes
OrAll(clauses, jr) ==
    IF clauses = <<>>
    THEN TRUE
    ELSE \E i \in 1..Len(clauses) : AndAll(clauses[i], jr)

\* query.where(or_(*query_search_filters)) over the joined rows
Where(db, entity, clauses) == {jr \in JoinedRows(db, entity) : OrAll(clauses, jr)}

\* a lookup that never filters, whatever the entity
filter_by_code_never(entity, rows, code) == rows

\* a parcel lookup that filters on the unique number
filter_by_code_unique_number(entity, rows, code) ==
    IF entity = "parcels"
    THEN {jr \in rows : jr[TableOf(entity)][1].unique_number = code}
    ELSE {jr \in rows : jr[TableOf(entity)][1].code = code}

\* query.filter(model.code == code); ParcelsService returns the query as it is
filter_by_code(entity, rows, code) ==
    IF entity = "parcels"
    THEN rows
    ELSE {jr \in rows : jr[TableOf(entity)][1].code = code}

-----------------------------------------------------------------------------
(* The requests the model draws.                                           *)

Srids == {None, Some(4326)}

GeometryOutputFormats == {None, Some("ewkt"), Some("ewkb")}

SortOrders == {"asc", "desc"}

AddressesFilter(codes) ==
    [codes |-> codes, feature_ids |-> None, plot_or_building_number |-> None,
     building_block_number |-> None, postal_code |-> None]

RoomsFilter(codes) == [codes |-> codes, room_number |-> None]

ParcelsFilter(unique_numbers) ==
    [unique_numbers |-> unique_numbers, unique_number |-> None,
     cadastral_number |-> None, area_ha |-> None]

\* the entity's own sub-filter, selecting by a list of codes
OwnFilter(entity, codes) ==
    CASE entity = "addresses" -> AddressesFilter(Some(codes))
      [] entity = "rooms" -> RoomsFilter(Some(codes))
      [] entity = "parcels" -> ParcelsFilter(Some(codes))
      [] OTHER -> GeneralBoundariesFilter(Some(codes), None, None)

GroupByCodes(entity, codes) ==
    [EmptyGroup EXCEPT ![entity] = Some(OwnFilter(entity, codes))]

GroupByGeometry(geometry_filter) ==
    [EmptyGroup EXCEPT !["geometry"] = Some(geometry_filter)]

PurposeTypeFilter(purpose_ids) ==
    [purpose_ids |-> purpose_ids, name |-> None, full_name |-> None,
     full_name_en |-> None]

StatusTypesFilter(status_ids) ==
    [status_ids |-> status_ids, name |-> None, name_en |-> None,
     full_name |-> None, full_name_en |-> None]

\* an Optional sub-filter: absent, or the one given
Maybe(sub_filter) == {None, Some(sub_filter)}

\* the parcel filter groups applied: every choice of which of the counties,
\* municipalities, purposes, statuses and parcels sub-filters are set
ParcelGroups ==
    {[EmptyGroup EXCEPT !["counties"] = c, !["municipalities"] = m,
                        !["purposes"] = p, !["statuses"] = st, !["parcels"] = q] :
        c \in Maybe(GeneralBoundariesFilter(Some(<<1>>), None, None)),
        m \in Maybe(GeneralBoundariesFilter(None, Some(<<21>>), None)),
        p \in Maybe(PurposeTypeFilter(Some(<<1, 2>>))),
        st \in Maybe(StatusTypesFilter(Some(<<1>>))),
        q \in Maybe(ParcelsFilter(Some(<<1>>)))}

\* the filter groups search requests are built from: no sub-filter at all;
\* one code; three codes and an enclosing geometry; a county name; a
\* geometry that does not decode; an ewkb on which the engine raises beside
\* an ewkt that does not decode; an empty list of codes
SearchGroups(entity) ==
    { EmptyGroup,
      GroupByCodes(entity, <<1>>),
      [GroupByCodes(entity, <<1, 2, 3>>) EXCEPT
          !["geometry"] = Some(GeometryFilter("contains", None,
                                   Some(Encoded("ST_GeomFromEWKT", "B")), None))],
      [EmptyGroup EXCEPT
          !["counties"] = Some(GeneralBoundariesFilter(None, None,
                                   Some(StringFilter(None, Some(<<"A">>), None))))],
      GroupByGeometry(GeometryFilter("intersects", None, Some("x"), None)),
      GroupByGeometry(GeometryFilter("intersects", Some("ERR"), Some("x"), None)),
      GroupByCodes(entity, <<>>) }

RECURSIVE SeqsUpTo(_, _)
\* the sequences over S of length at most n
SeqsUpTo(S, n) ==
    IF n = 0
    THEN {<<>>}
    ELSE SeqsUpTo(S, n - 1)
            \cup {Append(q, x) : q \in {t \in SeqsUpTo(S, n - 1) : Len(t) = n - 1}, x \in S}

\* the field the longer requests sort by
KeySortField(entity) == IF entity = "parcels" THEN "unique_number" ELSE "code"

\* the sort and filters of the search requests drawn: up to MaxGroups groups
\* sorted by the key field ascending, and up to one group in every sort
SearchRequests(entity) ==
    {[sort_by_field |-> KeySortField(entity), sort_order |-> "asc",
      filters |-> filters] :
        filters \in SeqsUpTo(SearchGroups(entity), MaxGroups)}
    \cup
    {[sort_by_field |-> sort_by_field, sort_order |-> sort_order,
      filters |-> filters] :
        sort_by_field \in SortFields(entity), sort_order \in SortOrders,
        filters \in SeqsUpTo(SearchGroups(entity), 1)}

\* the raw strings a geometry filter may carry for a decoder
RawValues(decoder) ==
    {None, Some(""), Some(Encoded(decoder, "A")), Some(Encoded(decoder, "B")),
     Some(Encoded(decoder, "S")), Some("x"), Some("ERR")}

GeometryFilters ==
    {GeometryFilter(m, b, t, j) :
        m \in {"intersects", "contains"},
        b \in RawValues("GeomFromEWKB"),
        t \in RawValues("ST_GeomFromEWKT"),
        j \in RawValues("GeomFromGeoJSON")}

\* the filter groups apply is called on: a geometry filter alone; for
\* parcels, the parcel groups; for the other entities, every choice of
\* which sub-filters of the entity's request schema are set, each to one
\* code; and for every entity the groups of one sub-filter whose lists are
\* absent, empty or hold a value
ApplyGroups(entity) ==
    LET fields ==
           CASE entity = "counties" -> {"counties"}
             [] entity = "municipalities" -> {"counties", "municipalities"}
             [] entity = "elderships" -> {"counties", "municipalities", "elderships"}
             [] entity = "residential_areas" ->
                   {"counties", "municipalities", "residential_areas"}
             [] entity = "streets" ->
                   {"counties", "municipalities", "residential_areas", "streets"}
             [] entity = "addresses" ->
                   {"counties", "municipalities", "residential_areas", "streets",
                    "addresses"}
             [] entity = "rooms" ->
                   {"counties", "municipalities", "residential_areas", "streets",
                    "addresses", "rooms"}
             [] OTHER -> {}
        Opt(field) == IF field \in fields
                      THEN Maybe(OwnFilter(field, <<1>>))
                      ELSE {None}
        list_fields ==
           IF entity = "parcels"
           THEN {"counties", "municipalities", "purposes", "statuses", "parcels"}
           ELSE fields
        Lists(values) == {None, Some(<<>>), Some(values)}
        SubFilter(field, ids, feature_ids) ==
           CASE field = "addresses" ->
                   [AddressesFilter(ids) EXCEPT !.feature_ids = feature_ids]
             [] field = "rooms" -> RoomsFilter(ids)
             [] field = "purposes" -> PurposeTypeFilter(ids)
             [] field = "statuses" -> StatusTypesFilter(ids)
             [] field = "parcels" -> ParcelsFilter(ids)
             [] OTHER -> GeneralBoundariesFilter(ids, feature_ids, None)
    IN  {GroupByGeometry(geometry_filter) : geometry_filter \in GeometryFilters}
        \cup {[EmptyGroup EXCEPT ![field] = Some(SubFilter(field, ids, feature_ids))] :
                 field \in list_fields, ids \in Lists(<<1>>),
                 feature_ids \in Lists(<<21>>)}
        \cup (IF entity = "parcels"
              THEN ParcelGroups
              ELSE {[EmptyGroup EXCEPT !["counties"] = c, !["municipalities"] = m,
                                       !["elderships"] = e,
                                       !["residential_areas"] = ra,
                                       !["streets"] = st, !["addresses"] = a,
                                       !["rooms"] = r] :
                       c \in Opt("counties"), m \in Opt("municipalities"),
                       e \in Opt("elderships"), ra \in Opt("residential_areas"),
                       st \in Opt("streets"), a \in Opt("addresses"),
                       r \in Opt("rooms")})

FilterStrings == {<<>>, <<"a">>, <<"A">>, <<"b">>, <<"A", "b">>, <<"a", "B">>}

OptionalStrings == {None} \cup {Some(x) : x \in FilterStrings}

StringFilters ==
    {StringFilter(c, e, st) :
        c \in OptionalStrings, e \in OptionalStrings, st \in OptionalStrings}

OptionalNumbers == {None} \cup {Some(n) : n \in 0..MaxNum}

NumberFilters ==
    {NumberFilter(eq, gt, gte, lt, lte) :
        eq \in OptionalNumbers, gt \in OptionalNumbers, gte \in OptionalNumbers,
        lt \in OptionalNumbers, lte \in OptionalNumbers}

\* the values a string column and a numeric column may hold
FieldStrings == FilterStrings \cup {<<"b", "a">>, <<"B">>}

FieldNumbers == (0 - 1)..(MaxNum + 1)

-----------------------------------------------------------------------------
(* State: the store (the tables are read only, so the number of rows each  *)
(* holds stands for their content), the call being served, its outcome.    *)

NoStringFilter == StringFilter(None, None, None)

NoNumberFilter == NumberFilter(None, None, None, None, None)

Idle ==
    [op |-> "idle", entity |-> "", filters |-> <<>>, sort_by_field |-> "",
     sort_order |-> "", srid |-> None, geometry_output_format |-> None, code |-> 0,
     string_filter |-> NoStringFilter, number_filter |-> NoNumberFilter]

\* an outcome: what was returned (kind) or raised (exc)
Outcome(kind, exc, field, value, columns, items, preds, checked) ==
    [kind |-> kind, exc |-> exc, field |-> field, value |-> value,
     columns |-> columns, items |-> items, preds |-> preds, checked |-> checked]

NoOutcome == Outcome("none", "", "", "", {}, <<>>, <<>>, <<>>)

Raised(exc, field, value, checked) ==
    Outcome("raised", exc, field, value, {}, <<>>, <<>>, checked)

\* paginate(db, query): the page of the ordered rows (the page holds them all)
Page(query, ordered, checked) ==
    Outcome("page", "", "", "", query.columns,
            [i \in 1..Len(ordered) |-> Item(query, ordered[i])], <<>>, checked)

\* the content of the store
store == StoreOf(store_size)

Init ==
    /\ store_size \in StoreSizes
    /\ call = Idle
    /\ res = NoOutcome
    /\ boundaries_filter = <<>>
    /\ requests = <<>>

\* BaseBoundariesService.search
search(entity, sort_by_field, sort_order, filters, srid, geometry_output_format) ==
    /\ call' = [Idle EXCEPT !.op = "search", !.entity = entity, !.filters = filters,
                            !.sort_by_field = sort_by_field, !.sort_order = sort_order,
                            !.srid = srid,
                            !.geometry_output_format = geometry_output_format]
    /\ LET query == get_select_query(entity, srid, geometry_output_format)
           found == Materialize(entity, filters, NoClauses)
       IN  IF query.exc # ""
           THEN res' = Raised(query.exc, "", "", <<>>)
           ELSE IF found.exc # ""
           THEN res' = Raised(found.exc, found.field, found.value, found.checked)
           ELSE \E ordered \in Orderings(entity, sort_by_field, sort_order,
                                         Where(store, entity, found.clauses)) :
                   res' = Page(query, ordered, found.checked)
    /\ UNCHANGED <<store_size, boundaries_filter, requests>>

\* BaseBoundariesService.get_by_code
get_by_code(entity, code, geometry_output_format, srid) ==
    /\ call' = [Idle EXCEPT !.op = "get_by_code", !.entity = entity, !.code = code,
                            !.srid = srid,
                            !.geometry_output_format = geometry_output_format]
    /\ LET query == get_select_query(entity, srid, geometry_output_format)
           rows  == filter_by_code(entity, JoinedRows(store, entity), code)
       IN  IF query.exc # ""
           THEN res' = Raised(query.exc, "", "", <<>>)
           ELSE IF rows = {}
           THEN res' = Outcome("row", "", "", "", query.columns, <<>>, <<>>, <<>>)
           ELSE \E first \in rows :
                   res' = Outcome("row", "", "", "", query.columns,
                                  <<Item(query, first)>>, <<>>, <<>>)
    /\ UNCHANGED <<store_size, boundaries_filter, requests>>

\* list(boundaries_filter.apply(search_filter, db)) on one filter group
apply(entity, search_filter) ==
    /\ call' = [Idle EXCEPT !.op = "apply", !.entity = entity,
                            !.filters = <<search_filter>>]
    /\ LET got == Apply(entity, search_filter)
       IN  res' = IF got.exc # ""
                  THEN Raised(got.exc, got.field, got.value, got.checked)
                  ELSE Outcome("preds", "", "", "", {}, <<>>, got.preds, got.checked)
    /\ UNCHANGED <<store_size, boundaries_filter, requests>>

\* list(_filter_by_string_field(string_filter, Parcels.cadastral_number))
string_predicates(string_filter) ==
    /\ call' = [Idle EXCEPT !.op = "string", !.string_filter = string_filter]
    /\ res' = Outcome("preds", "", "", "", {}, <<>>,
                      filter_by_string_field(string_filter, "parcels",
                                             "cadastral_number"), <<>>)
    /\ UNCHANGED <<store_size, boundaries_filter, requests>>

\* list(_filter_by_number_field(number_filter, Parcels.area_ha))
number_predicates(number_filter) ==
    /\ call' = [Idle EXCEPT !.op = "number", !.number_filter = number_filter]
    /\ res' = Outcome("preds", "", "", "", {}, <<>>,
                      filter_by_number_field(number_filter, "parcels", "area_ha"),
                      <<>>)
    /\ UNCHANGED <<store_size, boundaries_filter, requests>>

\* the call returns to its caller; the service is ready for the next one
Return ==
    /\ call.op # "idle"
    /\ call' = Idle
    /\ res' = NoOutcome
    /\ UNCHANGED <<store_size, boundaries_filter, requests>>

\* A call arrives only when none is being served (request-scoped,
\* synchronous execution); its inputs are drawn from the sets above.
SearchCall ==
    /\ call.op = "idle"
    /\ \E entity \in Entities, srid \in Srids,
          geometry_output_format \in GeometryOutputFormats :
          \E request \in SearchRequests(entity) :
             search(entity, request.sort_by_field, request.sort_order,
                    request.filters, srid, geometry_output_format)

GetByCodeCall ==
    /\ call.op = "idle"
    /\ \E entity \in Entities, code \in 0..(MaxRows + 1), srid \in Srids,
          geometry_output_format \in GeometryOutputFormats :
          get_by_code(entity, code, geometry_output_format, srid)

ApplyCall ==
    /\ call.op = "idle"
    /\ \E entity \in Entities : \E search_filter \in ApplyGroups(entity) :
          apply(entity, search_filter)

StringPredicatesCall ==
    /\ call.op = "idle"
    /\ \E string_filter \in StringFilters : string_predicates(string_filter)

NumberPredicatesCall ==
    /\ call.op = "idle"
    /\ \E number_filter \in NumberFilters : number_predicates(number_filter)

Next ==
    \/ SearchCall
    \/ GetByCodeCall
    \/ ApplyCall
    \/ StringPredicatesCall
    \/ NumberPredicatesCall
    \/ Return

Spec == Init /\ [][Next]_vars

-----------------------------------------------------------------------------
(* Two search requests served at the same time by one service. They share  *)
(* the entity filter object and the module's projection objects; each has  *)
(* the locals of its own call of search (services.py, 133-176): the query, *)
(* the list query_search_filters and its place in the loop over the        *)
(* groups. The calls interleave between the round trips to the engine.     *)

\* a filter object that keeps the geometry filter it was last applied to
filter_attributes_keep_geometry(attributes, search_filter) == <<search_filter.geometry>>

\* the instance attributes of the filter object after apply was consumed
\* for a filter group: no method of the filter classes assigns to self
filter_attributes_after_apply(attributes, search_filter) == attributes

\* requests 1 and 2 have arrived at the service of one entity, each with up
\* to MaxGroups filter groups out of two: one code inside an intersecting
\* geometry, and a geometry that does not decode. The filter object has the
\* attributes it was constructed with: none (the filter classes define no
\* __init__).
InitConcurrent ==
    /\ store_size = MaxRows
    /\ call = Idle
    /\ res = NoOutcome
    /\ boundaries_filter = <<>>
    /\ \E entity \in {"counties", "rooms", "parcels"} :
          LET groups ==
                 { [GroupByCodes(entity, <<1>>) EXCEPT
                       !["geometry"] =
                          Some(GeometryFilter("intersects", None,
                                   Some(Encoded("ST_GeomFromEWKT", "B")), None))],
                   GroupByGeometry(GeometryFilter("intersects", None, Some("x"),
                                                  None)) }
          IN  requests \in
                 [{1, 2} ->
                    {[call |-> [Idle EXCEPT !.op = "search", !.entity = entity,
                                            !.filters = filters,
                                            !.sort_by_field = KeySortField(entity),
                                            !.sort_order = "asc", !.srid = Some(4326),
                                            !.geometry_output_format = Some("ewkt")],
                      pc |-> "select", query |-> Query("", {}, NoGeometryColumn),
                      query_search_filters |-> NoClauses, done |-> 0,
                      page |-> NoOutcome] :
                        filters \in SeqsUpTo(groups, MaxGroups)}]

\* search, line 143: the projection, built from the module's objects
SelectQuery(r) ==
    /\ requests[r].pc = "select"
    /\ LET query == get_select_query(requests[r].call.entity, requests[r].call.srid,
                                     requests[r].call.geometry_output_format)
       IN  requests' =
              [requests EXCEPT
                 ![r].query = query,
                 ![r].pc = IF query.exc # "" THEN "returned" ELSE "loop",
                 ![r].page = IF query.exc # ""
                             THEN Raised(query.exc, "", "", <<>>)
                             ELSE NoOutcome]
    /\ UNCHANGED <<store_size, call, res, boundaries_filter>>

\* search, lines 145-150: one turn of the loop over request.filters
ApplyGroup(r) ==
    /\ requests[r].pc = "loop"
    /\ requests[r].done < Len(requests[r].call.filters)
    /\ LET search_filter == requests[r].call.filters[requests[r].done + 1]
           found == Materialize(requests[r].call.entity, <<search_filter>>,
                                requests[r].query_search_filters)
       IN  /\ requests' =
                 [requests EXCEPT
                    ![r].query_search_filters = found,
                    ![r].done = @ + 1,
                    ![r].pc = IF found.exc # "" THEN "returned" ELSE "loop",
                    ![r].page = IF found.exc # ""
                                THEN Raised(found.exc, found.field, found.value,
                                            found.checked)
                                ELSE NoOutcome]
           /\ boundaries_filter'
                 = filter_attributes_after_apply(boundaries_filter, search_filter)
    /\ UNCHANGED <<store_size, call, res>>

\* search, lines 152-176: where, order_by and the page
Execute(r) ==
    /\ requests[r].pc = "loop"
    /\ requests[r].done = Len(requests[r].call.filters)
    /\ \E ordered \in Orderings(requests[r].call.entity,
                                 requests[r].call.sort_by_field,
                                 requests[r].call.sort_order,
                                 Where(store, requests[r].call.entity,
                                       requests[r].query_search_filters.clauses)) :
          requests' =
             [requests EXCEPT
                ![r].pc = "returned",
                ![r].page = Page(requests[r].query, ordered,
                                 requests[r].query_search_filters.checked)]
    /\ UNCHANGED <<store_size, call, res, boundaries_filter>>

NextConcurrent ==
    \/ \E r \in DOMAIN requests : SelectQuery(r)
    \/ \E r \in DOMAIN requests : ApplyGroup(r)
    \/ \E r \in DOMAIN requests : Execute(r)

SpecConcurrent == InitConcurrent /\ [][NextConcurrent]_vars

-----------------------------------------------------------------------------
(* Properties of search: the OR of the groups' AND lists.                  *)

\* the joined rows of the items a search or get_by_code returned
ItemRows == {res.items[i].row : i \in 1..Len(res.items)}

\* how many items of the result project the joined row jr
CountOf(jr) == Cardinality({i \in 1..Len(res.items) : res.items[i].row = jr})

\* the entity filter yields at least one predicate for filter group k
GroupYields(k) ==
    /\ Apply(call.entity, call.filters[k]).exc = ""
    /\ Len(Apply(call.entity, call.filters[k]).preds) > 0

\* jr satisfies every predicate the entity filter yielded for filter group k
GroupSatisfied(k, jr) ==
    \A i \in 1..Len(Apply(call.entity, call.filters[k]).preds) :
        Holds(Apply(call.entity, call.filters[k]).preds[i], jr)

SearchReturned == call.op = "search" /\ res.kind = "page"

\* C1 as stated: when at least one group yields predicates, search returns
\* exactly the rows that satisfy at least one filter group, a row satisfying
\* a group iff it satisfies every predicate the group's filter yielded (so
\* every row satisfies a group that yielded none).
C1_RowsOfAnyGroup ==
    (SearchReturned /\ \E k \in 1..Len(call.filters) : GroupYields(k))
        => ItemRows = {jr \in JoinedRows(store, call.entity) :
                          \E k \in 1..Len(call.filters) : GroupSatisfied(k, jr)}

\* C1 amended: when at least one group yields predicates, search returns
\* exactly the rows that satisfy every predicate of at least one group that
\* yielded predicates; a group that yielded none selects no row.
C1_RowsOfAnyYieldingGroup ==
    (SearchReturned /\ \E k \in 1..Len(call.filters) : GroupYields(k))
        => ItemRows = {jr \in JoinedRows(store, call.entity) :
                          \E k \in 1..Len(call.filters) :
                              GroupYields(k) /\ GroupSatisfied(k, jr)}

\* a search by two groups that returned one row only the first group selects
\* and another only the second selects
C1_Witness ==
    /\ SearchReturned
    /\ Len(call.filters) = 2
    /\ GroupYields(1) /\ GroupYields(2)
    /\ \E jr \in ItemRows : GroupSatisfied(1, jr) /\ ~GroupSatisfied(2, jr)
    /\ \E jr \in ItemRows : GroupSatisfied(2, jr) /\ ~GroupSatisfied(1, jr)

\* C2 as stated: a search with zero filter groups returns zero items, for
\* every entity type and every store content.
C2_NoGroupsNoItems ==
    (SearchReturned /\ call.filters = <<>>) => Len(res.items) = 0

\* C2 amended: a search with zero filter groups either fails while building
\* the projection or returns every row of the entity type, each once.
C2_NoGroupsAllRows ==
    (call.op = "search" /\ call.filters = <<>>)
        => \/ res.kind = "raised" /\ res.exc \in {"TypeError", "ValueError"}
           \/ /\ res.kind = "page"
              /\ ItemRows = JoinedRows(store, call.entity)
              /\ Len(res.items) = store_size

\* a search without groups on a store of two rows or more returned them all
C2_Witness ==
    /\ SearchReturned
    /\ call.filters = <<>>
    /\ store_size >= 2
    /\ Len(res.items) = store_size

\* C3 as stated: with two filter groups A and B, every row satisfying A or B
\* (every predicate the group yielded) appears exactly once in the result.
C3_EachRowOnce ==
    (SearchReturned /\ Len(call.filters) = 2)
        => \A jr \in JoinedRows(store, call.entity) :
              (\E k \in 1..2 : GroupSatisfied(k, jr)) => CountOf(jr) = 1

\* C3 amended: with two filter groups A and B, every row satisfying A or B,
\* counting only a group that yielded predicates, appears exactly once in
\* the result, and no row of the entity's table appears twice in it.
C3_EachSelectedRowOnce ==
    (SearchReturned /\ Len(call.filters) = 2)
        => /\ \A jr \in JoinedRows(store, call.entity) :
                 (\E k \in 1..2 : GroupYields(k) /\ GroupSatisfied(k, jr))
                     => CountOf(jr) = 1
           /\ \A i, j \in 1..Len(res.items) :
                 i # j => BasePk(call.entity, res.items[i].row)
                            # BasePk(call.entity, res.items[j].row)

\* a search over ancestor joins by two different groups that both select
\* one of the returned rows
C3_Witness ==
    /\ SearchReturned
    /\ Len(call.filters) = 2
    /\ call.filters[1] # call.filters[2]
    /\ Joins(call.entity) # <<>>
    /\ GroupYields(1) /\ GroupYields(2)
    /\ \E jr \in ItemRows : GroupSatisfied(1, jr) /\ GroupSatisfied(2, jr)

-----------------------------------------------------------------------------
(* Properties of the string and number predicate builders.                 *)

\* every predicate of the outcome holds on the column value v
AllHoldOn(v) == \A i \in 1..Len(res.preds) : HoldsOn(res.preds[i], v)

\* C4: a string filter with contains = "" (exact and starts absent) yields a
\* predicate, and that predicate matches every non-null value.
C4_EmptyContainsMatchesAll ==
    (call.op = "string" /\ call.string_filter = StringFilter(Some(<<>>), None, None))
        => Len(res.preds) = 1 /\ \A v \in FieldStrings : HoldsOn(res.preds[1], v)

\* C5: a number filter with eq present (0 included) matches exactly the
\* values equal to eq, whatever gt, gte, lt and lte are.
C5_EqOnly ==
    (call.op = "number" /\ IsSet(call.number_filter.eq))
        => \A v \in FieldNumbers : AllHoldOn(v) <=> v = call.number_filter.eq[1]

\* C6: a number filter without eq and with lt and lte both present (lt = 0
\* included) applies the strict bound only: with no lower bound it matches
\* exactly the values below lt, and it yields no `<= lte` predicate.
C6_StrictUpperBound ==
    (/\ call.op = "number"
     /\ call.number_filter.eq = None
     /\ IsSet(call.number_filter.lt)
     /\ IsSet(call.number_filter.lte))
        => /\ \A i \in 1..Len(res.preds) : res.preds[i].op # "le"
           /\ (call.number_filter.gt = None /\ call.number_filter.gte = None)
                 => \A v \in FieldNumbers :
                       AllHoldOn(v) <=> v < call.number_filter.lt[1]

-----------------------------------------------------------------------------
(* Properties of the geometry filter.                                      *)

EncodingFields == <<"ewkb", "ewkt", "geojson">>

DecoderOf(field) ==
    CASE field = "ewkb" -> "GeomFromEWKB"
      [] field = "ewkt" -> "ST_GeomFromEWKT"
      [] field = "geojson" -> "GeomFromGeoJSON"

\* the geometry filter of the group an apply call was given
AppliedGeometry == call.filters[1].geometry[1]

\* encoding k of the applied geometry filter is supplied (a non-empty
\* string) and the validity check rejects it
FailsValidity(k) ==
    /\ IsSet(call.filters[1].geometry)
    /\ TruthyRaw(AppliedGeometry[EncodingFields[k]])
    /\ ~is_valid_geometry(DecoderOf(EncodingFields[k]),
                          AppliedGeometry[EncodingFields[k]][1])

\* C7: applying a geometry filter with a supplied encoding that fails the
\* validity check raises InvalidFilterGeometry; its field names the encoding
\* that failed (the first one, in the order ewkb, ewkt, geojson) and its
\* value is the raw string that was supplied for it.
C7_InvalidGeometryRaised ==
    (call.op = "apply" /\ \E k \in 1..3 : FailsValidity(k))
        => /\ res.kind = "raised"
           /\ res.exc = "InvalidFilterGeometry"
           /\ \E k \in 1..3 :
                 /\ FailsValidity(k)
                 /\ \A j \in 1..(k - 1) : ~FailsValidity(j)
                 /\ res.field = EncodingFields[k]
                 /\ res.value = AppliedGeometry[EncodingFields[k]][1]

\* an apply that accepted a valid ewkb and then rejected the ewkt "x"
C7_Witness ==
    /\ call.op = "apply"
    /\ res.exc = "InvalidFilterGeometry"
    /\ res.field = "ewkt"
    /\ res.value = "x"
    /\ Len(res.checked) = 2

-----------------------------------------------------------------------------
(* Properties of the projection.                                           *)

Served == call.op \in {"search", "get_by_code"}

ProjectionFailed == res.kind = "raised" /\ res.exc \in {"TypeError", "ValueError"}

Returned == res.kind \in {"page", "row"}

\* C8: for every entity type, with an SRID and an output format both
\* supplied, search and get_by_code build the projection, and it has the
\* geometry column, reprojected to the SRID and in the requested format.
C8_GeometryProjected ==
    (Served /\ IsSet(call.srid) /\ IsSet(call.geometry_output_format))
        => /\ ~ProjectionFailed
           /\ Returned =>
                 /\ "geometry" \in res.columns
                 /\ \A i \in 1..Len(res.items) :
                       res.items[i].geometry # None =>
                          /\ res.items[i].geometry[1].srid = call.srid[1]
                          /\ res.items[i].geometry[1].format
                                = call.geometry_output_format[1]

\* C9: addresses, rooms and parcels build their projection with the
\* geometry column for every combination of SRID and output format.
C9_AlwaysGeometry ==
    (Served /\ call.entity \in {"addresses", "rooms", "parcels"})
        => /\ ~ProjectionFailed
           /\ Returned => "geometry" \in res.columns

\* C10: counties, municipalities, elderships, residential areas and streets
\* with the SRID or the output format absent build their projection without
\* error and without a geometry column.
C10_NoGeometryWhenAbsent ==
    (/\ Served
     /\ call.entity \in {"counties", "municipalities", "elderships",
                         "residential_areas", "streets"}
     /\ (call.srid = None \/ call.geometry_output_format = None))
        => /\ ~ProjectionFailed
           /\ Returned => "geometry" \notin res.columns

-----------------------------------------------------------------------------
(* Properties of the parcel filter.                                       *)

\* a parcel filter group without a geometry filter was applied
ParcelGroupApplied ==
    /\ call.op = "apply"
    /\ call.entity = "parcels"
    /\ call.filters[1] \in ParcelGroups

\* the outcome holds a membership predicate on table.col
YieldsInPred(table, col) ==
    \E i \in 1..Len(res.preds) :
        res.preds[i].op = "in" /\ res.preds[i].table = table /\ res.preds[i].col = col

\* C11: for every parcel filter group apply completes and yields, in one
\* list, the predicates of the counties, municipalities, purposes, statuses
\* and parcels sub-filters that are set; a group with purposes set yields
\* the purpose predicates.
C11_ParcelAncestries ==
    ParcelGroupApplied
        => /\ res.kind = "preds"
           /\ IsSet(call.filters[1].counties) => YieldsInPred("counties", "code")
           /\ IsSet(call.filters[1].municipalities)
                 => YieldsInPred("municipalities", "feature_id")
           /\ IsSet(call.filters[1].purposes)
                 => YieldsInPred("purpose_types", "purpose_id")
           /\ IsSet(call.filters[1].statuses)
                 => YieldsInPred("status_types", "status_id")
           /\ IsSet(call.filters[1].parcels)
                 => YieldsInPred("parcels", "unique_number")
           /\ Len(res.preds)
                 = Cardinality({f \in {"counties", "municipalities", "purposes",
                                       "statuses", "parcels"} :
                                  IsSet(call.filters[1][f])})

-----------------------------------------------------------------------------
(* Properties of get_by_code.                                              *)

LookupReturned == call.op = "get_by_code" /\ res.kind = "row"

\* the codes a lookup is asked for
LookupCodes == 0..(MaxRows + 1)

\* C12: get_by_code on an entity type other than parcels returns at most one
\* row, a returned row has the requested code, and it returns none when no
\* row of the entity type has that code.
C12_AtMostOneRowOfCode ==
    (LookupReturned /\ call.entity # "parcels")
        => /\ Len(res.items) <= 1
           /\ \A i \in 1..Len(res.items) :
                 res.items[i].row[TableOf(call.entity)][1].code = call.code
           /\ (\A r \in store[TableOf(call.entity)] : r.code # call.code)
                 => res.items = <<>>

\* a lookup over ancestor joins that returned the one row of the requested
\* code out of a store that holds another row too
C12_Witness ==
    /\ LookupReturned
    /\ call.entity = "rooms"
    /\ store_size >= 2
    /\ Len(res.items) = 1
    /\ res.items[1].row["rooms"][1].code = call.code

\* C13: the result of get_by_code on parcels does not depend on the code:
\* what it returned for the requested code is a result of the lookup for
\* every other code too, a row of the unfiltered parcel query, or none when
\* the store holds no parcel.
C13_ParcelLookupIgnoresCode ==
    (LookupReturned /\ call.entity = "parcels")
        => /\ \A code \in LookupCodes :
                 IF filter_by_code("parcels", JoinedRows(store, "parcels"), code) = {}
                 THEN res.items = <<>>
                 ELSE /\ Len(res.items) = 1
                      /\ res.items[1].row
                            \in filter_by_code("parcels",
                                               JoinedRows(store, "parcels"), code)
           /\ res.items = <<>> <=> store_size = 0

\* a parcel lookup for a code no parcel carries that returned a parcel
C13_Witness ==
    /\ LookupReturned
    /\ call.entity = "parcels"
    /\ call.code = 0
    /\ store_size >= 2
    /\ Len(res.items) = 1
    /\ res.items[1].row["parcels"][1].ogc_fid = 2

-----------------------------------------------------------------------------
(* Properties of the result order.                                         *)

\* the entity's own row of result item i, and its value of the sort field
RowAt(i) == res.items[i].row[TableOf(call.entity)][1]

SortValueAt(i) == RowAt(i)[call.sort_by_field]

\* the number the leading digits of the stored numbers spell
LeadingNumber(text) ==
    CASE text = <<"2">> -> 2
      [] text = <<"1", "0">> -> 10
      [] text = <<"1", "A">> -> 1
      [] text = <<"1", "0", "1">> -> 101

NaturalSearchReturned ==
    /\ SearchReturned
    /\ call.sort_by_field \in {"room_number", "plot_or_building_number"}

\* C14: sorted by room_number or plot_or_building_number, the result is in
\* the order of the number the value's leading digits spell, increasing for
\* asc and decreasing for desc ("1A", "2", "10", "101" ascending), not in
\* the lexicographic order of the texts.
C14_NaturalOrder ==
    NaturalSearchReturned
        => \A i, j \in 1..Len(res.items) :
              i < j => IF call.sort_order = "asc"
                       THEN LeadingNumber(SortValueAt(i)) <= LeadingNumber(SortValueAt(j))
                       ELSE LeadingNumber(SortValueAt(i)) >= LeadingNumber(SortValueAt(j))

\* an ascending search that returned "2" before "10"
C14_Witness ==
    /\ NaturalSearchReturned
    /\ call.sort_order = "asc"
    /\ Len(res.items) = 2
    /\ SortValueAt(1) = <<"2">>
    /\ SortValueAt(2) = <<"1", "0">>

\* result items i and j have equal primary sort keys (texts compare under
\* NOCASE)
SameSortKey(i, j) ==
    IF call.sort_by_field \in StringColumns
    THEN Lower(SortValueAt(i)) = Lower(SortValueAt(j))
    ELSE SortValueAt(i) = SortValueAt(j)

\* the orders the engine may return the rows of the result in
ResultOrders ==
    Orderings(call.entity, call.sort_by_field, call.sort_order, ItemRows)

\* C15: for an entity with a code and either direction, two result rows
\* with equal primary sort key come in ascending code order, so one order
\* only is possible; for parcels nothing orders such rows.
C15_CodeTiebreaker ==
    SearchReturned
        => IF call.entity # "parcels"
           THEN /\ \A i, j \in 1..Len(res.items) :
                      (i < j /\ SameSortKey(i, j)) => RowAt(i).code < RowAt(j).code
                /\ Cardinality(ResultOrders) = 1
           ELSE (\E i, j \in 1..Len(res.items) : i < j /\ SameSortKey(i, j))
                    => Cardinality(ResultOrders) > 1

\* a descending search that returned two rows of equal sort key, the lower
\* code first
C15_Witness ==
    /\ SearchReturned
    /\ call.entity # "parcels"
    /\ call.sort_order = "desc"
    /\ Len(res.items) = 2
    /\ SameSortKey(1, 2)
    /\ RowAt(1).code < RowAt(2).code

-----------------------------------------------------------------------------
(* Properties of the geometry predicates.                                  *)

GeometryApplied == call.op = "apply" /\ IsSet(call.filters[1].geometry)

IsPresent(field) == AppliedGeometry[field] # None

\* the encodings present in the applied geometry filter, in the order
\* ewkb, ewkt, geojson
PresentFields == SelectSeq(EncodingFields, IsPresent)

\* the encoding is a non-empty string that passes the validity check
SuppliedValid(field) ==
    /\ TruthyRaw(AppliedGeometry[field])
    /\ is_valid_geometry(DecoderOf(field), AppliedGeometry[field][1])

\* the geometry the encoding holds, in the working SRID
SuppliedGeom(field) ==
    LET g == ST_Transform(Decode(DecoderOf(field), AppliedGeometry[field][1]),
                          Some(WorkingSrid))[1]
    IN  Geom(g.srid, g.pts)

\* the spatial function of the applied filter's method
MethodFunction ==
    CASE AppliedGeometry.method = "intersects" -> "ST_Intersects"
      [] AppliedGeometry.method = "contains" -> "ST_Contains"

\* the applied filter's method on a supplied geometry and a row's geometry
SpatialTest(supplied, candidate) ==
    IF AppliedGeometry.method = "intersects"
    THEN ST_Intersects(supplied, candidate)
    ELSE ST_Contains(supplied, candidate)

\* the geometries a row may hold
CandidateGeoms == {GeomOf(i) : i \in 0..(MaxRows + 1)}

\* C16: a geometry filter with none of the three encodings present yields
\* no predicate; with k of them present (k in 1..3), all valid, it yields
\* exactly k geometry predicates, one per encoding, all of the filter's
\* method and on the entity's geometry, and a geometry satisfies the group
\* iff it satisfies every one of them.
C16_PredicatePerEncoding ==
    GeometryApplied
        => /\ PresentFields = <<>> => (res.kind = "preds" /\ res.preds = <<>>)
           /\ (/\ PresentFields # <<>>
               /\ \A k \in 1..Len(PresentFields) : SuppliedValid(PresentFields[k]))
                 => /\ res.kind = "preds"
                    /\ Len(res.preds) = Len(PresentFields)
                    /\ \A k \in 1..Len(PresentFields) :
                          /\ res.preds[k].op = MethodFunction
                          /\ res.preds[k].table = geom_field(call.entity)
                          /\ res.preds[k].col = "geom"
                          /\ res.preds[k].geom = SuppliedGeom(PresentFields[k])
                    /\ \A v \in CandidateGeoms :
                          AllHoldOn(v)
                             <=> \A k \in 1..Len(PresentFields) :
                                    SpatialTest(SuppliedGeom(PresentFields[k]), v)

\* an apply of three valid encodings of two different shapes
C16_Witness ==
    /\ GeometryApplied
    /\ Len(PresentFields) = 3
    /\ Len(res.preds) = 3
    /\ res.preds[1].geom # res.preds[2].geom
    /\ res.preds[1].geom = res.preds[3].geom

-----------------------------------------------------------------------------
(* Further properties of the string and number predicate builders.         *)

StringApplied == call.op = "string"

\* the outcome is the one predicate op on the value str
YieldsOnly(op, str) ==
    /\ Len(res.preds) = 1
    /\ res.preds[1].op = op
    /\ Lower(res.preds[1].str) = Lower(str)

\* C17: the string predicate builder yields at most one predicate, by the
\* precedence exact > starts > contains: only the exact-match predicate if
\* exact is set, else only the prefix predicate if starts is set, else only
\* the substring predicate if contains is set, and none if none is set.
C17_StringPrecedence ==
    StringApplied
        => /\ Len(res.preds) <= 1
           /\ IF IsSet(call.string_filter.exact)
              THEN YieldsOnly("lower_eq", call.string_filter.exact[1])
              ELSE IF IsSet(call.string_filter.starts)
              THEN YieldsOnly("istartswith", call.string_filter.starts[1])
              ELSE IF IsSet(call.string_filter.contains)
              THEN YieldsOnly("icontains", call.string_filter.contains[1])
              ELSE res.preds = <<>>

\* the same Optional string up to letter case
SameButCase(o1, o2) ==
    (o1 = None <=> o2 = None) /\ (o1 # None => Lower(o1[1]) = Lower(o2[1]))

\* the string filters that differ from the applied one in letter case only
CaseVariants ==
    {sf \in StringFilters :
        /\ SameButCase(sf.exact, call.string_filter.exact)
        /\ SameButCase(sf.starts, call.string_filter.starts)
        /\ SameButCase(sf.contains, call.string_filter.contains)}

\* the field value f passes every predicate of the list preds
PassesAll(preds, f) == \A i \in 1..Len(preds) : HoldsOn(preds[i], f)

\* C18: string predicates are case-insensitive: whether a field value f
\* matches is unchanged when the letter case of f or of the filter value v
\* is changed, in every mode; the exact predicate matches iff
\* lower(f) = lower(v).
C18_CaseInsensitive ==
    StringApplied
        => /\ \A f, g \in FieldStrings :
                 Lower(f) = Lower(g) => (AllHoldOn(f) <=> AllHoldOn(g))
           /\ \A sf \in CaseVariants : \A f \in FieldStrings :
                 AllHoldOn(f)
                    <=> PassesAll(filter_by_string_field(sf, "parcels",
                                                         "cadastral_number"), f)
           /\ (Len(res.preds) = 1 /\ res.preds[1].op = "lower_eq")
                 => \A f \in FieldStrings :
                       AllHoldOn(f) <=> Lower(f) = Lower(call.string_filter.exact[1])

\* an exact filter "aB" whose predicate matches "Ab" and rejects "a"
C18_Witness ==
    /\ StringApplied
    /\ call.string_filter.exact = Some(<<"a", "B">>)
    /\ Len(res.preds) = 1
    /\ HoldsOn(res.preds[1], <<"A", "b">>)
    /\ ~HoldsOn(res.preds[1], <<"a">>)

\* the outcome's lower bound predicates
LowerBounds == SelectSeq(res.preds, LAMBDA p : p.op \in {"gt", "ge"})

\* the outcome's upper bound predicates
UpperBounds == SelectSeq(res.preds, LAMBDA p : p.op \in {"lt", "le"})

\* C19: for a number filter without eq the lower bound is `> gt` if gt is
\* present, else `>= gte` if gte is present, else none, whether or not an
\* upper bound is applied, and a value matches iff it satisfies the upper
\* and the lower bound chosen.
C19_LowerBound ==
    (call.op = "number" /\ call.number_filter.eq = None)
        => /\ IF IsSet(call.number_filter.gt)
              THEN /\ Len(LowerBounds) = 1
                   /\ LowerBounds[1].op = "gt"
                   /\ LowerBounds[1].num = call.number_filter.gt[1]
              ELSE IF IsSet(call.number_filter.gte)
              THEN /\ Len(LowerBounds) = 1
                   /\ LowerBounds[1].op = "ge"
                   /\ LowerBounds[1].num = call.number_filter.gte[1]
              ELSE LowerBounds = <<>>
           /\ Len(res.preds) = Len(LowerBounds) + Len(UpperBounds)
           /\ \A v \in FieldNumbers :
                 AllHoldOn(v) <=> (PassesAll(UpperBounds, v) /\ PassesAll(LowerBounds, v))

-----------------------------------------------------------------------------
(* The direction of the geometry predicate.                                *)

\* candidate geometries: every non-empty set of the points 1, 2, 3
EnclosureCandidates == {Geom(WorkingSrid, pts) : pts \in (SUBSET {1, 2, 3}) \ {{}}}

GeometryPredicatesYielded == GeometryApplied /\ res.kind = "preds"

IsSupplied(field) == TruthyRaw(AppliedGeometry[field])

\* the encodings supplied as non-empty strings, in the order ewkb, ewkt,
\* geojson: predicate k of the outcome is built from the k-th of them
SuppliedFields == SelectSeq(EncodingFields, IsSupplied)

\* C20: with method intersects a row matches iff its geometry overlaps the
\* supplied filter geometry; with method contains a row matches iff its
\* geometry lies completely inside the supplied filter geometry, never the
\* reverse.
C20_PredicateDirection ==
    GeometryPredicatesYielded
        => \A k \in 1..Len(res.preds) : \A v \in EnclosureCandidates :
              HoldsOn(res.preds[k], v)
                 <=> IF AppliedGeometry.method = "intersects"
                     THEN v.pts \cap SuppliedGeom(SuppliedFields[k]).pts # {}
                     ELSE v.pts \subseteq SuppliedGeom(SuppliedFields[k]).pts

\* a contains filter on the shape {2, 3} whose predicate matches the
\* geometry {2} inside it and rejects the geometry {1, 2, 3} around it
C20_Witness ==
    /\ GeometryPredicatesYielded
    /\ AppliedGeometry.method = "contains"
    /\ Len(res.preds) = 1
    /\ res.preds[1].geom.pts = {2, 3}
    /\ HoldsOn(res.preds[1], Geom(WorkingSrid, {2}))
    /\ ~HoldsOn(res.preds[1], Geom(WorkingSrid, {1, 2, 3}))

-----------------------------------------------------------------------------
(* Engine errors inside the validity check.                                *)

\* the encodings of the call's filter groups, in the order the loop over
\* the groups and the geometry filter reach them
EncodingSlots ==
    [i \in 1..(3 * Len(call.filters)) |->
        [group |-> ((i - 1) \div 3) + 1,
         field |-> EncodingFields[((i - 1) % 3) + 1]]]

\* the slot's encoding is supplied as a non-empty string
SlotSupplied(s) ==
    /\ IsSet(call.filters[s.group].geometry)
    /\ TruthyRaw(call.filters[s.group].geometry[1][s.field])

SuppliedSlots == SelectSeq(EncodingSlots, SlotSupplied)

SlotValue(s) == call.filters[s.group].geometry[1][s.field][1]

SlotValid(s) == is_valid_geometry(DecoderOf(s.field), SlotValue(s))

\* the call is one that materializes filter groups and, for a search, its
\* projection was built
Materializes ==
    /\ call.op \in {"search", "apply"}
    /\ call.op = "search"
          => get_select_query(call.entity, call.srid,
                              call.geometry_output_format).exc = ""

\* the validity check of the i-th supplied encoding is made: every one
\* before it passed
CheckReached(i) ==
    /\ Materializes
    /\ \A j \in 1..(i - 1) : SlotValid(SuppliedSlots[j])

\* C21: when the validity check of a supplied geometry makes the engine
\* raise an execution error, the call fails with InvalidFilterGeometry for
\* that encoding and raw value, as for a check that returned false, and the
\* engine's error never reaches the caller.
C21_EngineErrorIsInvalid ==
    /\ res.exc # "OperationalError"
    /\ \A i \in 1..Len(SuppliedSlots) :
          (CheckReached(i) /\ EngineRaises(SlotValue(SuppliedSlots[i])))
             => /\ res.kind = "raised"
                /\ res.exc = "InvalidFilterGeometry"
                /\ res.field = SuppliedSlots[i].field
                /\ res.value = SlotValue(SuppliedSlots[i])
                /\ Len(res.checked) = i
                /\ res.checked[i]
                      = Checked(SuppliedSlots[i].field,
                                SlotValue(SuppliedSlots[i]), FALSE)

\* a search rejected for the ewkb on which the engine raised
C21_Witness ==
    /\ call.op = "search"
    /\ Len(call.filters) = 1
    /\ res.kind = "raised"
    /\ res.exc = "InvalidFilterGeometry"
    /\ res.field = "ewkb"
    /\ EngineRaises(res.value)

-----------------------------------------------------------------------------
(* Determinism of search and get_by_code.                                  *)

\* the outcomes a run of the call c may have on the store: one page for
\* every order the engine may give the rows that the ORDER BY leaves tied,
\* and for a lookup one row for every row the query lets be the first
OutcomesOf(c) ==
    LET query == get_select_query(c.entity, c.srid, c.geometry_output_format)
        found == Materialize(c.entity, c.filters, NoClauses)
        rows  == filter_by_code(c.entity, JoinedRows(store, c.entity), c.code)
    IN  IF query.exc # ""
        THEN {Raised(query.exc, "", "", <<>>)}
        ELSE IF c.op = "search"
        THEN IF found.exc # ""
             THEN {Raised(found.exc, found.field, found.value, found.checked)}
             ELSE {Page(query, ordered, found.checked) :
                      ordered \in Orderings(c.entity, c.sort_by_field, c.sort_order,
                                            Where(store, c.entity, found.clauses))}
        ELSE IF rows = {}
        THEN {Outcome("row", "", "", "", query.columns, <<>>, <<>>, <<>>)}
        ELSE {Outcome("row", "", "", "", query.columns, <<Item(query, first)>>,
                      <<>>, <<>>) : first \in rows}

PossibleOutcomes == OutcomesOf(call)

\* every validity check recorded has the result the check has for its raw
\* value whenever it is made
ChecksRepeat ==
    \A i \in 1..Len(res.checked) :
        res.checked[i].valid
           = is_valid_geometry(DecoderOf(res.checked[i].field), res.checked[i].value)

\* C22 as stated: two runs of search or get_by_code with the same request on
\* the same store have the same outcome, the same rows in the same order or
\* the same error, and a geometry's validity check always has the same
\* result.
C22_Deterministic ==
    /\ Served => \A outcome \in PossibleOutcomes : outcome = res
    /\ ChecksRepeat

\* the rows of an outcome's items
RowsOf(outcome) == {outcome.items[i].row : i \in 1..Len(outcome.items)}

\* C22 amended: for an entity with a code the outcome is the same in every
\* run; for parcels every run has the same error or, for a search, a page of
\* the same rows in an order that may differ among rows of equal sort key,
\* and a lookup returns a row of the same projection; a geometry's validity
\* check always has the same result.
C22_DeterministicUpToTies ==
    /\ Served =>
          \A outcome \in PossibleOutcomes :
             /\ call.entity # "parcels" => outcome = res
             /\ outcome.kind = res.kind
             /\ outcome.exc = res.exc
             /\ outcome.columns = res.columns
             /\ Len(outcome.items) = Len(res.items)
             /\ call.op = "search" => RowsOf(outcome) = ItemRows
    /\ ChecksRepeat

\* a search on streets by created_at that returned two rows of equal sort
\* key, after a validity check that passed
C22_Witness ==
    /\ SearchReturned
    /\ call.entity = "streets"
    /\ call.sort_by_field = "created_at"
    /\ Len(res.items) = 2
    /\ SameSortKey(1, 2)
    /\ Cardinality(PossibleOutcomes) = 1

-----------------------------------------------------------------------------
(* Concurrent requests on one filter object.                               *)

\* what request r would have after the groups it has gone through, had it
\* been the only request
AloneSoFar(r) ==
    Materialize(requests[r].call.entity,
                SubSeq(requests[r].call.filters, 1, requests[r].done), NoClauses)

\* C23: the shared filter object never holds anything of a request (its
\* attributes stay as constructed), and in every interleaving of the two
\* requests each one has, after every group, the predicates and checks it
\* would have alone, and returns an outcome it can return alone.
C23_RequestsIsolated ==
    /\ boundaries_filter = <<>>
    /\ \A r \in DOMAIN requests :
          /\ requests[r].query_search_filters = AloneSoFar(r)
          /\ requests[r].pc = "returned"
                => requests[r].page \in OutcomesOf(requests[r].call)

\* request 1 is inside its loop over two groups and holds the clause of
\* the first; meanwhile request 2, given the undecodable geometry first,
\* was rejected
C23_Witness ==
    /\ DOMAIN requests = {1, 2}
    /\ requests[1].pc = "loop"
    /\ requests[1].done = 1
    /\ Len(requests[1].call.filters) = 2
    /\ Len(requests[1].query_search_filters.clauses) = 1
    /\ requests[2].pc = "returned"
    /\ requests[2].done = 1
    /\ requests[2].page.exc = "InvalidFilterGeometry"
    /\ requests[2].call.filters[1] = requests[1].call.filters[2]

-----------------------------------------------------------------------------
(* Filter groups that yield no predicate.                                  *)

\* the entity filter runs to its end on filter group k and yields nothing
YieldsNothing(k) ==
    /\ Apply(call.entity, call.filters[k]).exc = ""
    /\ Apply(call.entity, call.filters[k]).preds = <<>>

\* the filter groups of the call without group k
Without(k) ==
    SubSeq(call.filters, 1, k - 1) \o SubSeq(call.filters, k + 1, Len(call.filters))

\* C24: a filter group that yields no predicate is skipped: a search whose
\* request holds such a group E has an outcome that the search of the same
\* request without E has, so it selects the same rows; E neither makes
\* every row match nor keeps any row from matching.
C24_EmptyGroupSkipped ==
    call.op = "search"
        => \A k \in 1..Len(call.filters) :
              YieldsNothing(k)
                 => res \in OutcomesOf([call EXCEPT !.filters = Without(k)])

\* a search on a store of two rows, by the code 1 and a group with an empty
\* list of codes, that returned the one row of code 1
C24_Witness ==
    /\ SearchReturned
    /\ store_size = 2
    /\ call.entity = "streets"
    /\ Len(call.filters) = 2
    /\ GroupYields(1)
    /\ call.filters[2] = GroupByCodes("streets", <<>>)
    /\ YieldsNothing(2)
    /\ Len(res.items) = 1
    /\ RowAt(1).code = 1

-----------------------------------------------------------------------------
(* The hierarchy of the boundary filters.                                  *)

\* the entity types whose predicates an entity's filter is to yield: itself
\* and its ancestors, from the county down
Ancestry(entity) ==
    CASE entity = "counties" -> <<"counties">>
      [] entity = "municipalities" -> <<"counties", "municipalities">>
      [] entity = "elderships" -> <<"counties", "municipalities", "elderships">>
      [] entity = "residential_areas" ->
            <<"counties", "municipalities", "residential_areas">>
      [] entity = "streets" ->
            <<"counties", "municipalities", "residential_areas", "streets">>
      [] entity = "addresses" ->
            <<"counties", "municipalities", "residential_areas", "streets",
              "addresses">>
      [] entity = "rooms" ->
            <<"counties", "municipalities", "residential_areas", "streets",
              "addresses", "rooms">>

\* a boundary filter was applied to a group of attribute sub-filters, each
\* of those set selecting by one code
HierarchyApplied ==
    /\ call.op = "apply"
    /\ call.entity # "parcels"
    /\ call.filters[1].geometry = None
    /\ \A field \in GroupFields :
          IsSet(call.filters[1][field])
             => call.filters[1][field] = Some(OwnFilter(field, <<1>>))

\* the sub-filters set in the applied group, from the county down
SetSubFilters ==
    SelectSeq(<<"counties", "municipalities", "elderships", "residential_areas",
                "streets", "addresses", "rooms">>,
              LAMBDA field : IsSet(call.filters[1][field]))

\* C25: a boundary filter yields exactly the predicates of the sub-filters
\* set for its own entity type and its ancestors along county ->
\* municipality -> residential area -> street -> address -> room and county
\* -> municipality -> eldership; an eldership filter yields nothing on
\* residential areas, streets, addresses or rooms, and a residential-area,
\* street, address or room filter yields nothing on elderships.
C25_AncestorPredicates ==
    HierarchyApplied
        => /\ res.kind = "preds"
           /\ \A i \in 1..Len(Ancestry(call.entity)) :
                 IsSet(call.filters[1][Ancestry(call.entity)[i]])
                    => \E j \in 1..Len(res.preds) :
                          res.preds[j]
                             = InPred(Ancestry(call.entity)[i], "code",
                                      call.filters[1][Ancestry(call.entity)[i]][1].codes[1])
           /\ \A j \in 1..Len(res.preds) :
                 /\ res.preds[j].table \in SeqToSet(Ancestry(call.entity))
                 /\ IsSet(call.filters[1][res.preds[j].table])
           /\ Len(res.preds) = Len(SetSubFilters)
           /\ call.entity = "elderships"
                 => \A j \in 1..Len(res.preds) :
                       res.preds[j].table
                          \notin {"residential_areas", "streets", "addresses", "rooms"}
           /\ call.entity \in {"residential_areas", "streets", "addresses", "rooms"}
                 => \A j \in 1..Len(res.preds) : res.preds[j].table # "elderships"

\* a rooms filter applied to a group with all six sub-filters set, that
\* yielded six predicates, the county's first and the room's last
C25_Witness ==
    /\ HierarchyApplied
    /\ call.entity = "rooms"
    /\ Len(SetSubFilters) = 6
    /\ Len(res.preds) = 6
    /\ res.preds[1].table = "counties"
    /\ res.preds[3].table = "residential_areas"
    /\ res.preds[6].table = "rooms"

-----------------------------------------------------------------------------
(* The geometry field of the geometry predicates.                          *)

\* the table that holds the geometry of the entity type searched: its own,
\* and for rooms, which have none, the address's
OwnGeometryTable == IF call.entity = "rooms" THEN "addresses" ELSE call.entity

\* C26: every geometry predicate an entity's filter yields is on the
\* geometry field of that entity type, for rooms on the address geometry
\* field, never on an ancestor's: on every row of the entity it is the
\* spatial test of the supplied geometry against the row's own geometry.
C26_OwnGeometryField ==
    GeometryPredicatesYielded
        => \A k \in 1..Len(res.preds) :
              /\ res.preds[k].col = "geom"
              /\ res.preds[k].table = OwnGeometryTable
              /\ \A jr \in JoinedRows(store, call.entity) :
                    Holds(res.preds[k], jr)
                       <=> /\ jr[OwnGeometryTable] # None
                           /\ SpatialTest(res.preds[k].geom,
                                          jr[OwnGeometryTable][1].geom)

\* a rooms filter that yielded a predicate on the address geometry, which
\* a room of the store satisfies
C26_Witness ==
    /\ GeometryPredicatesYielded
    /\ call.entity = "rooms"
    /\ Len(res.preds) = 1
    /\ res.preds[1].table = "addresses"
    /\ \E jr \in JoinedRows(store, "rooms") : Holds(res.preds[1], jr)

-----------------------------------------------------------------------------
(* The order of the validity checks and the rejection of the request.      *)

\* the supplied encodings that fail the validity check
InvalidSlots == {i \in 1..Len(SuppliedSlots) : ~SlotValid(SuppliedSlots[i])}

\* the first of them, in the order of the groups and, inside a group, of
\* ewkb, ewkt, geojson
FirstInvalid == CHOOSE i \in InvalidSlots : \A j \in InvalidSlots : i <= j

\* the check the call is to record for the i-th supplied encoding
CheckOf(i) ==
    Checked(SuppliedSlots[i].field, SlotValue(SuppliedSlots[i]),
            SlotValid(SuppliedSlots[i]))

\* C27: the validity checks are made group by group in request order and,
\* inside a group, in the order ewkb, ewkt, geojson; at the first geometry
\* that fails, the call raises InvalidFilterGeometry for that encoding,
\* makes no further check and returns no page, whatever the other groups
\* hold; a page is returned only after every check was made and passed.
C27_FirstInvalidRejects ==
    Materializes
        => IF InvalidSlots # {}
           THEN /\ res.kind = "raised"
                /\ res.exc = "InvalidFilterGeometry"
                /\ res.field = SuppliedSlots[FirstInvalid].field
                /\ res.value = SlotValue(SuppliedSlots[FirstInvalid])
                /\ res.items = <<>>
                /\ res.checked = [i \in 1..FirstInvalid |-> CheckOf(i)]
           ELSE res.kind \in {"page", "preds"}
                   => res.checked = [i \in 1..Len(SuppliedSlots) |-> CheckOf(i)]

\* a search of two groups, the first with a valid geometry and the second
\* with two bad encodings, rejected for the ewkb of the second group after
\* two checks
C27_Witness ==
    /\ call.op = "search"
    /\ Len(call.filters) = 2
    /\ GroupYields(1)
    /\ Len(SuppliedSlots) = 3
    /\ InvalidSlots = {2, 3}
    /\ res.kind = "raised"
    /\ res.field = "ewkb"
    /\ Len(res.checked) = 2
    /\ res.checked[1].valid

-----------------------------------------------------------------------------
(* The parcel filter's base layer.                                         *)

\* a parcel filter was applied to a geometry filter or to a parcel group
ParcelApplied ==
    /\ call.op = "apply"
    /\ call.entity = "parcels"
    /\ (IsSet(call.filters[1].geometry) \/ call.filters[1] \in ParcelGroups)

\* the table a sub-filter of the parcel request puts its predicates on
TableOfField(field) ==
    CASE field = "purposes" -> "purpose_types"
      [] field = "statuses" -> "status_types"
      [] OTHER -> field

\* how many attribute predicates of the outcome are on the table
AttributePredicates(table) ==
    Cardinality({i \in 1..Len(res.preds) :
                    res.preds[i].table = table /\ res.preds[i].col # "geom"})

GeometryPredicates ==
    Cardinality({i \in 1..Len(res.preds) : res.preds[i].col = "geom"})

\* C28: a parcel filter applies the base layer once per filter group: each
\* supplied (valid) geometry encoding is validated once and yields one
\* geometry predicate, and the predicates of each of the counties,
\* municipalities, purposes, statuses and parcels sub-filters that are set
\* are yielded once.
C28_BaseLayerOnce ==
    (ParcelApplied /\ InvalidSlots = {})
        => /\ res.kind = "preds"
           /\ res.checked = [i \in 1..Len(SuppliedSlots) |-> CheckOf(i)]
           /\ GeometryPredicates = Len(SuppliedSlots)
           /\ \A field \in {"counties", "municipalities", "purposes", "statuses",
                              "parcels"} :
                 AttributePredicates(TableOfField(field))
                    = IF IsSet(call.filters[1][field]) THEN 1 ELSE 0

-----------------------------------------------------------------------------
(* Empty lists of codes and ids.                                           *)

ListAttributes == {"codes", "feature_ids", "purpose_ids", "status_ids", "unique_numbers"}

\* the sub-filter field and list attribute pairs of the applied group whose
\* list is set to the empty list
EmptyLists ==
    {at \in (GroupFields \ {"geometry"}) \X ListAttributes :
        /\ IsSet(call.filters[1][at[1]])
        /\ at[2] \in DOMAIN call.filters[1][at[1]][1]
        /\ call.filters[1][at[1]][1][at[2]] = Some(<<>>)}

\* the applied group with the list at[2] of its sub-filter at[1] absent
WithListAbsent(at) ==
    [call.filters[1] EXCEPT ![at[1]] = Some([call.filters[1][at[1]][1]
                                               EXCEPT ![at[2]] = None])]

\* the generator's result as the outcome apply leaves
AppliedOutcome(got) ==
    IF got.exc # ""
    THEN Raised(got.exc, got.field, got.value, got.checked)
    ELSE Outcome("preds", "", "", "", {}, <<>>, got.preds, got.checked)

\* C29: an empty list of codes, feature ids, purpose ids, status ids or
\* unique numbers contributes no predicate: the filter yields for the group
\* what it yields for the same group with that list absent, and no
\* membership predicate on an empty list is ever yielded.
C29_EmptyListNoPredicate ==
    call.op = "apply"
        => /\ \A at \in EmptyLists :
                 res = AppliedOutcome(Apply(call.entity, WithListAbsent(at)))
           /\ \A i \in 1..Len(res.preds) :
                 res.preds[i].op = "in" => res.preds[i].vals # <<>>

\* an addresses filter applied to an addresses sub-filter with codes = []
\* and one feature id, that yielded the feature id predicate alone
C29_Witness ==
    /\ call.op = "apply"
    /\ call.entity = "addresses"
    /\ <<"addresses", "codes">> \in EmptyLists
    /\ Len(res.preds) = 1
    /\ res.preds[1] = InPred("addresses", "feature_id", <<21>>)

====
